---- MODULE Spec2Model ----
(***************************************************************************)
(* The heap of oxischeme (src/src/heap.rs): arenas, arena sets, the root   *)
(* table, Rooted handles, the mark and sweep collector, GC pressure, the   *)
(* symbol table and the location registry, driven by a mutator that holds  *)
(* heap references only inside Rooted handles.                              *)
(***************************************************************************)
EXTENDS Integers, Sequences, FiniteSets, Bags, TLC

\* ------------------------------------------------------------------ bounds

\* Objects per arena of each arena set (the argument of ArenaSet::new).
ConsCapacity == 2
StringsCapacity == 2
ActivationsCapacity == 3
ProceduresCapacity == 2

\* Arenas an arena set may hold at once (the program has no such limit).
MaxConsArenas == 2
MaxStringsArenas == 1
MaxActivationsArenas == 1
MaxProceduresArenas == 1

\* ------------------------------------------------------------------ values

Kinds == {"Cons", "String", "Activation", "Procedure"}

\* ArenaSet.capacity of the heap's four arena sets.
Capacity(kind) ==
    CASE kind = "Cons" -> ConsCapacity
      [] kind = "String" -> StringsCapacity
      [] kind = "Activation" -> ActivationsCapacity
      [] kind = "Procedure" -> ProceduresCapacity

MaxArenas(kind) ==
    CASE kind = "Cons" -> MaxConsArenas
      [] kind = "String" -> MaxStringsArenas
      [] kind = "Activation" -> MaxActivationsArenas
      [] kind = "Procedure" -> MaxProceduresArenas

\* The addresses a Box<Arena<T>> of one kind can get from the OS.
ArenaIds(kind) == 1 .. MaxArenas(kind)

\* Value: a leaf, or a tagged ArenaPtr (arena address, index).  A
\* Rooted<ConsPtr>, Rooted<StringPtr>, ... holds the same pointer under the
\* tag of its kind; "Activation" tags an ActivationPtr, which is no Value.
EmptyList == [tag |-> "EmptyList", arena |-> 0, index |-> 0]
Primitive == [tag |-> "Primitive", arena |-> 0, index |-> 0]
NoParent == [tag |-> "None", arena |-> 0, index |-> 0]
Ptr(tag, arena, index) == [tag |-> tag, arena |-> arena, index |-> index]

\* GcThing: the union of the four pointer kinds.
GcThing(kind, arena, index) == [kind |-> kind, arena |-> arena, index |-> index]

\* ToGcThing: Some(thing) as <<thing>>, None as <<>>.
to_gc_thing(v) ==
    CASE v.tag = "Pair" -> <<GcThing("Cons", v.arena, v.index)>>
      [] v.tag \in {"String", "Symbol"} -> <<GcThing("String", v.arena, v.index)>>
      [] v.tag = "Activation" -> <<GcThing("Activation", v.arena, v.index)>>
      [] v.tag = "Procedure" -> <<GcThing("Procedure", v.arena, v.index)>>
      [] OTHER -> <<>>

\* Default::default() of the four pooled types.
Default(kind) ==
    CASE kind = "Cons" -> [car |-> EmptyList, cdr |-> EmptyList]
      [] kind = "String" -> [chars |-> ""]
      [] kind = "Activation" -> [parent |-> NoParent, args |-> <<>>]
      [] kind = "Procedure" -> [body |-> EmptyList, act |-> NoParent]

\* ------------------------------------------------------------------ Arena

RECURSIVE Unmarked(_, _, _)
\* range(lo, hi).filter(|n| !marked.get(n)).collect()
Unmarked(marked, lo, hi) ==
    IF lo >= hi THEN <<>>
    ELSE (IF marked[lo] THEN <<>> ELSE <<lo>>) \o Unmarked(marked, lo + 1, hi)

\* Arena::new: every slot default, every index free, no mark set.
ArenaNew(kind, id) ==
    [id |-> id,
     pool |-> [n \in 0 .. Capacity(kind) - 1 |-> Default(kind)],
     free |-> Unmarked([n \in 0 .. Capacity(kind) - 1 |-> FALSE], 0, Capacity(kind)),
     marked |-> [n \in 0 .. Capacity(kind) - 1 |-> FALSE]]

is_full(arena) == arena.free = <<>>

is_empty(arena) == Len(arena.free) = Cardinality(DOMAIN arena.pool)

\* A faulty allocate, which returns the last free index and leaves it on the
\* free list.
AllocateKeepsIndex(arena) ==
    IF arena.free = <<>>
    THEN [ok |-> FALSE, arena |-> arena, index |-> 0]
    ELSE [ok |-> TRUE, arena |-> arena, index |-> arena.free[Len(arena.free)]]

\* Arena::allocate: Vec::pop takes the last free index; the slot keeps what
\* it held.  An arena without a free index panics.
ArenaAllocate(arena) ==
    IF arena.free = <<>>
    THEN [ok |-> FALSE, arena |-> arena, index |-> 0]
    ELSE [ok |-> TRUE,
          arena |-> [arena EXCEPT !.free = SubSeq(arena.free, 1, Len(arena.free) - 1)],
          index |-> arena.free[Len(arena.free)]]

\* A faulty sweep, which clears the marks and leaves the free list alone.
SweepNothing(arena) == [arena EXCEPT !.marked = [n \in DOMAIN arena.marked |-> FALSE]]

\* A faulty sweep, which rebuilds the free list and leaves the marks set.
SweepKeepsMarks(arena) ==
    [arena EXCEPT !.free = Unmarked(arena.marked, 0, Cardinality(DOMAIN arena.pool))]

\* Arena::sweep: the free list becomes the unmarked indices in ascending
\* order, then every mark is cleared.
ArenaSweep(arena) ==
    [arena EXCEPT !.free = Unmarked(arena.marked, 0, Cardinality(DOMAIN arena.pool)),
                  !.marked = [n \in DOMAIN arena.marked |-> FALSE]]

\* ------------------------------------------------------------------ ArenaSet
\* An arena set is the sequence `arenas` of its arenas.

\* A faulty sweep of the set, which retains every arena.
SweepRetainAll(arenas) == [i \in 1 .. Len(arenas) |-> ArenaSweep(arenas[i])]

\* ArenaSet::sweep: sweep each arena, then retain the non-empty ones.
ArenaSetSweep(arenas) ==
    LET swept == [i \in 1 .. Len(arenas) |-> ArenaSweep(arenas[i])]
        keep(a) == ~is_empty(a)
    IN  SelectSeq(swept, keep)

\* A faulty scan, which takes the first arena whether or not it is full.
FirstArena(arenas) == IF arenas = <<>> THEN 0 ELSE 1

FirstNotFull(arenas) ==
    LET cands == {i \in 1 .. Len(arenas) : ~is_full(arenas[i])}
    IN  IF cands = {} THEN 0 ELSE CHOOSE i \in cands : \A j \in cands : i <= j

\* A faulty allocate, which takes the slot from a new arena every time.
AlwaysNewArena(kind, arenas, newId) ==
    LET r == ArenaAllocate(ArenaNew(kind, newId))
    IN  [ok |-> r.ok,
         arenas |-> Append(arenas, r.arena),
         ptr |-> [arena |-> newId, index |-> r.index]]

\* ArenaSet::allocate: the first arena that is not full, else a new arena
\* (at address newId) appended to the set.
ArenaSetAllocate(kind, arenas, newId) ==
    LET i == FirstNotFull(arenas)
    IN  IF i # 0
        THEN LET r == ArenaAllocate(arenas[i])
             IN  [ok |-> r.ok,
                  arenas |-> [arenas EXCEPT ![i] = r.arena],
                  ptr |-> [arena |-> arenas[i].id, index |-> r.index]]
        ELSE LET r == ArenaAllocate(ArenaNew(kind, newId))
             IN  [ok |-> r.ok,
                  arenas |-> Append(arenas, r.arena),
                  ptr |-> [arena |-> newId, index |-> r.index]]

\* The addresses of the arenas a set holds.
LiveIds(arenas) == {arenas[i].id : i \in 1 .. Len(arenas)}

\* The position in `arenas` of the arena at address id.
ArenaIndex(arenas, id) == CHOOSE i \in 1 .. Len(arenas) : arenas[i].id = id

\* ------------------------------------------------------------------ Heap

VARIABLES
    cons_cells,             \* Heap.cons_cells.arenas
    strings,                \* Heap.strings.arenas
    activations,            \* Heap.activations.arenas
    procedures,             \* Heap.procedures.arenas
    roots,                  \* Heap.roots: sequence of <<GcThing, count>>
    symbol_table,           \* Heap.symbol_table: name -> string pointer
    global_activation,      \* Heap.global_activation
    allocations,            \* Heap.allocations
    allocations_threshold,  \* Heap.allocations_threshold
    locations,              \* Heap.locations: cons pointer -> Location
    rooted,                 \* the live Rooted handles: a bag of their referents
    writes,                 \* field writes of the mutator so far
    allocated,              \* allocate_* calls so far
    crashed,                \* the process has ended in a panic or a crash
    last,                   \* history: what the last operation did
    limits,                 \* the bounds of the run, fixed at its start
    environment,            \* Heap.environment.bindings, youngest frame last
    saved,                  \* history: the bindings before each extend not yet popped
    enlocated,              \* history: the enlocate calls, <<pair, location>> each
    pending_trace,          \* collect_garbage's worklist while it marks step by step
    newly_pending_trace,    \* the referents found in the round under way
    tracing                 \* the collector's position and the history of its marking

vars == <<cons_cells, strings, activations, procedures, roots, symbol_table,
          global_activation, allocations, allocations_threshold, locations,
          rooted, writes, allocated, crashed, last, limits, environment, saved, enlocated, pending_trace, newly_pending_trace, tracing>>

\* The four arena sets of the heap, by kind.
Sets == [Cons |-> cons_cells, String |-> strings,
         Activation |-> activations, Procedure |-> procedures]

\* Whether the arena a thing points into is held by its arena set.
ArenaLive(sets, thing) == thing.arena \in LiveIds(sets[thing.kind])

ArenaOf(sets, thing) == sets[thing.kind][ArenaIndex(sets[thing.kind], thing.arena)]

\* Deref for ArenaPtr: the object in the pointed-to slot.
Deref(sets, thing) == ArenaOf(sets, thing).pool[thing.index]

\* ArenaPtr::is_marked / ArenaPtr::mark
is_marked(sets, thing) == ArenaOf(sets, thing).marked[thing.index]

mark(sets, thing) ==
    [sets EXCEPT ![thing.kind][ArenaIndex(sets[thing.kind], thing.arena)].marked[thing.index] = TRUE]

RECURSIVE FilterThings(_)
\* values.iter().filter_map(|v| v.to_gc_thing()).collect()
FilterThings(values) ==
    IF values = <<>> THEN <<>>
    ELSE to_gc_thing(Head(values)) \o FilterThings(Tail(values))

\* Trace for Cons: car and cdr, when they carry a slot handle.
TraceCons(cons) == FilterThings(<<cons.car, cons.cdr>>)

\* A faulty trace of an activation, which leaves out the parent.
TraceWithoutParent(act) == FilterThings(act.args)

\* Trace for Activation: the args that are GC things, then the parent.
TraceActivation(act) == FilterThings(act.args) \o to_gc_thing(act.parent)

\* Trace for Procedure: the body and the captured activation.
TraceProcedure(proc) == FilterThings(<<proc.body>>) \o to_gc_thing(proc.act)

\* Trace for GcThing: strings hold no references.
trace(sets, thing) ==
    CASE thing.kind = "Cons" -> TraceCons(Deref(sets, thing))
      [] thing.kind = "Activation" -> TraceActivation(Deref(sets, thing))
      [] thing.kind = "Procedure" -> TraceProcedure(Deref(sets, thing))
      [] thing.kind = "String" -> <<>>

RECURSIVE SetToSeq(_)
\* The elements of a finite set in some order (a HashMap's iteration order).
SetToSeq(S) ==
    IF S = {} THEN <<>>
    ELSE LET x == CHOOSE x \in S : TRUE IN <<x>> \o SetToSeq(S \ {x})

\* Faulty root sets: one without the located pairs, one without the interned
\* strings, one without the global activation.
RootsWithoutLocations(symtab, global, rootTable, locs) ==
    [i \in 1 .. Cardinality(DOMAIN symtab) |->
        LET n == SetToSeq(DOMAIN symtab)[i]
        IN  GcThing("String", symtab[n].arena, symtab[n].index)]
    \o <<GcThing("Activation", global.arena, global.index)>>
    \o [i \in 1 .. Len(rootTable) |-> rootTable[i][1]]

RootsWithoutSymbols(symtab, global, rootTable, locs) ==
    <<GcThing("Activation", global.arena, global.index)>>
    \o [i \in 1 .. Len(rootTable) |-> rootTable[i][1]]
    \o [i \in 1 .. Cardinality(DOMAIN locs) |->
        LET c == SetToSeq(DOMAIN locs)[i]
        IN  GcThing("Cons", c.arena, c.index)]

RootsWithoutGlobal(symtab, global, rootTable, locs) ==
    [i \in 1 .. Cardinality(DOMAIN symtab) |->
        LET n == SetToSeq(DOMAIN symtab)[i]
        IN  GcThing("String", symtab[n].arena, symtab[n].index)]
    \o [i \in 1 .. Len(rootTable) |-> rootTable[i][1]]
    \o [i \in 1 .. Cardinality(DOMAIN locs) |->
        LET c == SetToSeq(DOMAIN locs)[i]
        IN  GcThing("Cons", c.arena, c.index)]

\* Heap::get_roots: the interned strings, the global activation, the root
\* table's things, the keys of the location registry.
get_roots(symtab, global, rootTable, locs) ==
    [i \in 1 .. Cardinality(DOMAIN symtab) |->
        LET n == SetToSeq(DOMAIN symtab)[i]
        IN  GcThing("String", symtab[n].arena, symtab[n].index)]
    \o <<GcThing("Activation", global.arena, global.index)>>
    \o [i \in 1 .. Len(rootTable) |-> rootTable[i][1]]
    \o [i \in 1 .. Cardinality(DOMAIN locs) |->
        LET c == SetToSeq(DOMAIN locs)[i]
        IN  GcThing("Cons", c.arena, c.index)]

RECURSIVE DrainPending(_, _)
\* The for loop over pending_trace.drain(): m = [sets, newly, ub].  A thing
\* whose arena has been released is behind a dangling pointer: is_marked
\* reads freed memory.  ub records it; the action then either ends the
\* process (Crash) or goes on as if the read had found the bit set.
DrainPending(m, pending) ==
    IF pending = <<>> THEN m
    ELSE LET thing == Head(pending)
         IN  IF ~ArenaLive(m.sets, thing)
             THEN DrainPending([m EXCEPT !.ub = TRUE], Tail(pending))
             ELSE IF is_marked(m.sets, thing)
             THEN DrainPending(m, Tail(pending))
             ELSE DrainPending([sets |-> mark(m.sets, thing),
                                newly |-> m.newly \o trace(m.sets, thing),
                                ub |-> m.ub],
                               Tail(pending))

\* A faulty mark phase, which marks the roots and never follows a handle.
MarkRootsOnly(m, pending) == DrainPending([m EXCEPT !.newly = <<>>], pending)

RECURSIVE MarkLoop(_, _)
\* while !pending_trace.is_empty() { ... pending_trace.append(newly) }
MarkLoop(m, pending) ==
    IF pending = <<>> THEN m
    ELSE LET r == DrainPending([m EXCEPT !.newly = <<>>], pending)
         IN  MarkLoop(r, r.newly)

\* The second half of collect_garbage: sweep each arena set.
SweepAll(sets) ==
    [Cons |-> ArenaSetSweep(sets.Cons), String |-> ArenaSetSweep(sets.String),
     Activation |-> ArenaSetSweep(sets.Activation),
     Procedure |-> ArenaSetSweep(sets.Procedure)]

\* A faulty threshold: the capacity, not half of it, per arena.
FullCapacityPressure(sets) ==
    (ConsCapacity * Len(sets.Cons)) + (StringsCapacity * Len(sets.String))
    + (ActivationsCapacity * Len(sets.Activation))
    + (ProceduresCapacity * Len(sets.Procedure))

\* Heap::reset_gc_pressure: the threshold from the arena counts.
reset_gc_pressure(sets) ==
    ((ConsCapacity \div 2) * Len(sets.Cons))
    + ((StringsCapacity \div 2) * Len(sets.String))
    + ((ActivationsCapacity \div 2) * Len(sets.Activation))
    + ((ProceduresCapacity \div 2) * Len(sets.Procedure))

\* Heap::collect_garbage on the arena sets: [sets, ub] after mark and sweep.
collect(sets, symtab, global, rootTable, locs) ==
    LET m == MarkLoop([sets |-> sets, newly |-> <<>>, ub |-> FALSE],
                      get_roots(symtab, global, rootTable, locs))
    IN  [sets |-> SweepAll(m.sets), ub |-> m.ub]

\* A faulty pressure test, which fires when the counter reaches the threshold.
PressureAtThreshold(allocs, threshold) == allocs >= threshold

\* Heap::is_too_much_pressure
is_too_much_pressure(allocs, threshold) == allocs > threshold

\* A faulty add_root, which pushes a new entry whether or not the thing has
\* one.
AddRootAlways(rootTable, root) == Append(rootTable, <<root, 1>>)

\* Heap::add_root
add_root(rootTable, root) ==
    IF \E i \in 1 .. Len(rootTable) : rootTable[i][1] = root
    THEN LET i == CHOOSE i \in 1 .. Len(rootTable) :
                    /\ rootTable[i][1] = root
                    /\ \A j \in 1 .. i - 1 : rootTable[j][1] # root
         IN  [rootTable EXCEPT ![i] = <<root, rootTable[i][2] + 1>>]
    ELSE Append(rootTable, <<root, 1>>)

\* A faulty drop, which removes the entry of the thing whatever its count.
DropEntry(rootTable, r) ==
    SelectSeq(rootTable, LAMBDA pair : pair[1] # r)

RECURSIVE DropFold(_, _)
\* The fold of drop_root over the root table.
DropFold(rootTable, r) ==
    IF rootTable = <<>> THEN <<>>
    ELSE LET pair == Head(rootTable)
         IN  (IF pair[1] = r
              THEN (IF pair[2] = 1 THEN <<>> ELSE <<<<pair[1], pair[2] - 1>>>>)
              ELSE <<pair>>)
             \o DropFold(Tail(rootTable), r)

\* Heap::drop_root, for a Rooted whose referent is v.
drop_root(rootTable, v) ==
    IF to_gc_thing(v) = <<>> THEN rootTable
    ELSE DropFold(rootTable, to_gc_thing(v)[1])

\* Rooted::add_root, for a Rooted whose referent is v.
RootedAddRoot(rootTable, v) ==
    IF to_gc_thing(v) = <<>> THEN rootTable
    ELSE add_root(rootTable, to_gc_thing(v)[1])

\* ------------------------------------------------------------------ state

SlotsOfKind(sets, k) ==
    UNION {{GcThing(k, sets[k][i].id, n) : n \in DOMAIN sets[k][i].pool} :
           i \in 1 .. Len(sets[k])}

\* Every slot of every arena the sets hold, as a GcThing.
Slots(sets) == UNION {SlotsOfKind(sets, k) : k \in Kinds}

\* A slot is allocated when its arena is in its set and its index is not on
\* the arena's free list.
Allocated(sets, thing) ==
    /\ ArenaLive(sets, thing)
    /\ \A j \in 1 .. Len(ArenaOf(sets, thing).free) :
           ArenaOf(sets, thing).free[j] # thing.index

\* The GcThing of a pointer value.
ThingOf(v) == to_gc_thing(v)[1]

IsThing(v) == to_gc_thing(v) # <<>>

\* What an operation leaves in `last`: its name, the collections it ran, the
\* value it returned and the name or location it was given.
Did(op, gcs, ret, arg) ==
    [op |-> op, gcs |-> gcs, ret |-> ret, arg |-> arg]

\* The bounds of a run: how many allocate_* calls and field writes it makes,
\* how many Rooted handles the mutator holds at once, how many pairs it
\* registers with a location, the names it interns and the locations it uses.
Limits(allocs, nwrites, handles, located, names, locs) ==
    [allocations |-> allocs, writes |-> nwrites, rooted |-> handles,
     located |-> located, names |-> names, locations |-> locs]

\* The frame define_primitives leaves in a new Environment: the name of each
\* primitive bound to its slot of the global activation.
PrimitiveNames == [n \in {"cons"} |-> 0]

\* The collector at rest: no collection is in progress.  The fields other
\* than on are history: the vector get_roots returned, the things marked,
\* the referents pushed on the worklist and the rounds of the while loop, in
\* the collection that was traced step by step last.
NotTracing ==
    [on |-> FALSE, order |-> <<>>, marked |-> EmptyBag, enqueued |-> 0, rounds |-> 0]

\* Heap::with_arenas on four empty arena sets: the global activation is the
\* first object of the activations set; define_primitives pushes the
\* primitives, which are leaves, into it.
with_arenas ==
    \E id \in ArenaIds("Activation") :
        LET r == ArenaSetAllocate("Activation", <<>>, id)
            acts == [r.arenas EXCEPT ![1].pool[r.ptr.index].args = <<Primitive>>]
        IN  /\ cons_cells = <<>>
            /\ strings = <<>>
            /\ activations = acts
            /\ procedures = <<>>
            /\ global_activation = r.ptr
            /\ roots = <<>>
            /\ symbol_table = <<>>
            /\ allocations = 0
            /\ allocations_threshold =
                   reset_gc_pressure([Cons |-> <<>>, String |-> <<>>,
                                      Activation |-> acts, Procedure |-> <<>>])
            /\ locations = <<>>
            /\ rooted = EmptyBag
            /\ writes = 0
            /\ allocated = 0
            /\ crashed = FALSE
            /\ last = Did("with_arenas", 0, EmptyList, "")
            /\ environment = <<PrimitiveNames>>
            /\ saved = <<>>
            /\ enlocated = <<>>
            /\ pending_trace = <<>>
            /\ newly_pending_trace = <<>>
            /\ tracing = NotTracing

\* A faulty pressure bump, which counts and never collects.
CountWithoutCollecting ==
    [sets |-> Sets, ub |-> FALSE, gcs |-> 0, allocations |-> allocations + 1,
     threshold |-> allocations_threshold]

\* Heap::increase_gc_pressure (on_allocation): count the allocation and
\* collect when the count exceeds the threshold.
increase_gc_pressure ==
    IF is_too_much_pressure(allocations + 1, allocations_threshold)
    THEN LET c == collect(Sets, symbol_table, global_activation, roots, locations)
         IN  [sets |-> c.sets, ub |-> c.ub, gcs |-> 1, allocations |-> 0,
              threshold |-> reset_gc_pressure(Sets)]
    ELSE [sets |-> Sets, ub |-> FALSE, gcs |-> 0, allocations |-> allocations + 1,
          threshold |-> allocations_threshold]

SetArenas(sets) ==
    /\ cons_cells' = sets.Cons
    /\ strings' = sets.String
    /\ activations' = sets.Activation
    /\ procedures' = sets.Procedure

\* What the mutator's operations on Rooted handles and fields leave alone.
HeapUnchanged ==
    UNCHANGED <<symbol_table, global_activation, allocations,
                allocations_threshold, locations, allocated, crashed, limits, environment, saved, enlocated, pending_trace, newly_pending_trace, tracing>>

ArenasUnchanged == UNCHANGED <<cons_cells, strings, activations, procedures>>

\* A read or write through a dangling pointer that ends the process.
Crash ==
    /\ crashed' = TRUE
    /\ UNCHANGED <<cons_cells, strings, activations, procedures, roots,
                   symbol_table, global_activation, allocations,
                   allocations_threshold, locations, rooted, writes, allocated,
                   last, limits, environment, saved, enlocated, pending_trace, newly_pending_trace, tracing>>

\* A panic of the call: nothing is returned and nothing is written.
Panic(op, arg) ==
    /\ crashed' = TRUE
    /\ last' = Did(op, 0, EmptyList, arg)
    /\ UNCHANGED <<roots, rooted, writes>>
    /\ ArenasUnchanged
    /\ UNCHANGED <<symbol_table, global_activation, allocations,
                   allocations_threshold, locations, allocated, limits, environment, saved, enlocated, pending_trace, newly_pending_trace, tracing>>

\* The addresses a new arena of the kind may get: none when the allocation
\* finds a free slot in an arena it holds.
NewIds(kind, arenas) ==
    IF FirstNotFull(arenas) # 0 THEN {0} ELSE ArenaIds(kind) \ LiveIds(arenas)

\* ArenaSet::allocate on the set of the kind, after on_allocation gave p:
\* the first two lines of every allocate_*.
TakeSlot(p, kind, id) ==
    LET r == ArenaSetAllocate(kind, p.sets[kind], id)
    IN  [ok |-> r.ok, ptr |-> r.ptr, sets |-> [p.sets EXCEPT ![kind] = r.arenas]]

\* Whether the run has an allocation left and the arena set, after the
\* collection the allocation may trigger, has a free slot or room for one
\* more arena.
HasRoom(p, kind) ==
    /\ allocated < limits.allocations
    /\ BagCardinality(rooted) < limits.rooted
    /\ FirstNotFull(p.sets[kind]) # 0 \/ Len(p.sets[kind]) < MaxArenas(kind)

\* Rooted::new(heap, v): the handle joins the mutator's, its referent the roots.
RootedNewOf(v) ==
    /\ roots' = RootedAddRoot(roots, v)
    /\ rooted' = rooted (+) SetToBag({v})

\* Drop of a Rooted whose referent is v.
RootedDropOf(v) ==
    /\ roots' = drop_root(roots, v)
    /\ rooted' = rooted (-) SetToBag({v})

\* Heap::allocate_cons / allocate_string / allocate_activation /
\* allocate_procedure: on_allocation, ArenaSet::allocate, Rooted::new.
Allocate(kind, tag, op) ==
    /\ ~crashed
    /\ LET p == increase_gc_pressure
       IN  /\ HasRoom(p, kind)
           /\ \/ /\ p.ub
                 /\ Crash
              \/ \E id \in NewIds(kind, p.sets[kind]) :
                   LET t == TakeSlot(p, kind, id)
                       v == Ptr(tag, t.ptr.arena, t.ptr.index)
                   IN  \/ /\ ~t.ok
                          /\ Panic("Arena::allocate: panic", "")
                       \/ /\ t.ok
                          /\ SetArenas(t.sets)
                          /\ allocations' = p.allocations
                          /\ allocations_threshold' = p.threshold
                          /\ RootedNewOf(v)
                          /\ allocated' = allocated + 1
                          /\ last' = Did(op, p.gcs, v, "")
                          /\ UNCHANGED <<symbol_table, global_activation, locations,
                                         writes, crashed, limits, environment, saved, enlocated, pending_trace, newly_pending_trace, tracing>>

allocate_cons == Allocate("Cons", "Pair", "allocate_cons")

allocate_string == Allocate("String", "String", "allocate_string")

allocate_activation == Allocate("Activation", "Activation", "allocate_activation")

allocate_procedure == Allocate("Procedure", "Procedure", "allocate_procedure")

\* Heap::collect_garbage, called by the mutator.
collect_garbage ==
    /\ ~crashed
    /\ LET c == collect(Sets, symbol_table, global_activation, roots, locations)
       IN  \/ /\ c.ub
              /\ Crash
           \/ /\ SetArenas(c.sets)
              /\ allocations' = 0
              /\ allocations_threshold' = reset_gc_pressure(Sets)
              /\ last' = Did("collect_garbage", 1, EmptyList, "")
              /\ UNCHANGED <<roots, symbol_table, global_activation, locations,
                             rooted, writes, allocated, crashed, limits, environment, saved, enlocated, pending_trace, newly_pending_trace, tracing>>

\* Heap::increase_gc_pressure called by the mutator itself: the method is
\* public.
IncreasePressure ==
    /\ ~crashed
    /\ LET p == increase_gc_pressure
       IN  \/ /\ p.ub
              /\ Crash
           \/ /\ SetArenas(p.sets)
              /\ allocations' = p.allocations
              /\ allocations_threshold' = p.threshold
              /\ last' = Did("increase_gc_pressure", p.gcs, EmptyList, "")
              /\ UNCHANGED <<roots, symbol_table, global_activation, locations,
                             rooted, writes, allocated, crashed, limits, environment, saved, enlocated, pending_trace, newly_pending_trace, tracing>>

\* ------------------------------------------------- collect_garbage, by steps
\* The orders in which a HashMap may yield the elements of S: its iteration
\* order is unspecified.
Orders(S) ==
    {f \in [1 .. Cardinality(S) -> S] : \A x \in S : \E i \in DOMAIN f : f[i] = x}

\* Heap::get_roots with the iteration orders of self.symbol_table.values()
\* and of self.locations.keys() left open: the vectors it may return.
RootOrders(symtab, global, rootTable, locs) ==
    {[i \in 1 .. Len(names) |->
         GcThing("String", symtab[names[i]].arena, symtab[names[i]].index)]
     \o <<GcThing("Activation", global.arena, global.index)>>
     \o [i \in 1 .. Len(rootTable) |-> rootTable[i][1]]
     \o [i \in 1 .. Len(keys) |-> GcThing("Cons", keys[i].arena, keys[i].index)] :
         names \in Orders(DOMAIN symtab), keys \in Orders(DOMAIN locs)}

\* What the body of the for loop does with one thing of the worklist:
\* [sets, newly, marked], marked telling whether thing.mark() was called.
Visited(sets, newly, marked) == [sets |-> sets, newly |-> newly, marked |-> marked]

\* A faulty loop body, which pushes the referents of a thing whether or not
\* it finds the thing marked.
VisitTracesMarked(sets, newly, thing) ==
    Visited(mark(sets, thing), newly \o trace(sets, thing), ~is_marked(sets, thing))

\* A faulty loop body, which clears the mark of a thing it finds marked.
VisitTogglesMark(sets, newly, thing) ==
    IF is_marked(sets, thing)
    THEN Visited([sets EXCEPT ![thing.kind][ArenaIndex(sets[thing.kind], thing.arena)]
                                  .marked[thing.index] = FALSE],
                 newly, FALSE)
    ELSE Visited(mark(sets, thing), newly \o trace(sets, thing), TRUE)

\* if !thing.is_marked() { thing.mark(); for referent in thing.trace() {
\* newly_pending_trace.push(referent); } }
Visit(sets, newly, thing) ==
    IF is_marked(sets, thing)
    THEN Visited(sets, newly, FALSE)
    ELSE Visited(mark(sets, thing), newly \o trace(sets, thing), TRUE)

\* What a step of the collector leaves alone.
MutatorUnchanged ==
    UNCHANGED <<roots, symbol_table, global_activation, locations, rooted, writes,
                allocated, crashed, limits, environment, saved, enlocated>>

\* Heap::collect_garbage up to its while loop: reset_gc_pressure, then
\* pending_trace = self.get_roots().
StartCollection ==
    /\ ~crashed
    /\ ~tracing.on
    /\ pending_trace' \in RootOrders(symbol_table, global_activation, roots, locations)
    /\ newly_pending_trace' = <<>>
    /\ tracing' = [on |-> TRUE, order |-> pending_trace', marked |-> EmptyBag,
                   enqueued |-> 0, rounds |-> 0]
    /\ allocations' = 0
    /\ allocations_threshold' = reset_gc_pressure(Sets)
    /\ last' = Did("get_roots", 0, EmptyList, "")
    /\ ArenasUnchanged
    /\ MutatorUnchanged

\* One turn of for thing in pending_trace.drain().  After the last thing of
\* the round, pending_trace.append(&mut newly_pending_trace) makes the
\* referents found the worklist of the next round.  A thing in a released
\* arena is behind a dangling pointer: the read of its mark bit ends the
\* process or finds the bit set.
TraceThing ==
    /\ ~crashed
    /\ tracing.on
    /\ pending_trace # <<>>
    /\ LET thing == Head(pending_trace)
           dangling == ~ArenaLive(Sets, thing)
           r == IF dangling THEN Visited(Sets, newly_pending_trace, FALSE)
                ELSE Visit(Sets, newly_pending_trace, thing)
           ends == Tail(pending_trace) = <<>>
       IN  \/ /\ dangling
              /\ Crash
           \/ /\ SetArenas(r.sets)
              /\ pending_trace' = IF ends THEN r.newly ELSE Tail(pending_trace)
              /\ newly_pending_trace' = IF ends THEN <<>> ELSE r.newly
              /\ tracing' = [on |-> TRUE,
                             order |-> tracing.order,
                             marked |-> IF r.marked
                                        THEN tracing.marked (+) SetToBag({thing})
                                        ELSE tracing.marked,
                             enqueued |-> tracing.enqueued + Len(r.newly)
                                          - Len(newly_pending_trace),
                             rounds |-> tracing.rounds + (IF ends THEN 1 ELSE 0)]
              /\ last' = Did("trace", 0, EmptyList, "")
              /\ UNCHANGED <<allocations, allocations_threshold>>
              /\ MutatorUnchanged

\* The rest of collect_garbage, once the worklist is empty: sweep each arena
\* set.
SweepArenaSets ==
    /\ ~crashed
    /\ tracing.on
    /\ pending_trace = <<>>
    /\ SetArenas(SweepAll(Sets))
    /\ tracing' = [tracing EXCEPT !.on = FALSE]
    /\ last' = Did("collect_garbage", 1, EmptyList, "")
    /\ UNCHANGED <<pending_trace, newly_pending_trace, allocations, allocations_threshold>>
    /\ MutatorUnchanged

\* The referents of the mutator's live Rooted handles.
Held == BagToSet(rooted)

\* The values the mutator reads out of the objects it holds rooted.
FieldsOf(v) ==
    IF ~IsThing(v) \/ ~ArenaLive(Sets, ThingOf(v)) THEN {}
    ELSE LET obj == Deref(Sets, ThingOf(v))
         IN  CASE v.tag = "Pair" -> {obj.car, obj.cdr}
               [] v.tag = "Activation" ->
                    {obj.args[i] : i \in 1 .. Len(obj.args)} \cup ({obj.parent} \ {NoParent})
               [] v.tag = "Procedure" -> {obj.body, obj.act} \ {NoParent}
               [] OTHER -> {}

Readable == UNION {FieldsOf(v) : v \in Held}

\* Rooted::new on a value read from a rooted object, or on a leaf.
RootedNew ==
    /\ ~crashed
    /\ BagCardinality(rooted) < limits.rooted
    /\ \E v \in Readable \cup {EmptyList} :
        /\ RootedNewOf(v)
        /\ last' = Did("Rooted::new", 0, v, "")
    /\ UNCHANGED writes
    /\ ArenasUnchanged
    /\ HeapUnchanged

\* Clone for Rooted: Rooted::new on the same referent.
RootedClone ==
    /\ ~crashed
    /\ BagCardinality(rooted) < limits.rooted
    /\ \E v \in Held :
        /\ RootedNewOf(v)
        /\ last' = Did("Rooted::clone", 0, v, "")
    /\ UNCHANGED writes
    /\ ArenasUnchanged
    /\ HeapUnchanged

\* A faulty emplace, which roots the new referent and keeps the old one
\* rooted.
EmplaceWithoutDrop(rootTable, v, rhs) == RootedAddRoot(rootTable, rhs)

\* The root table after Rooted::emplace(rhs) on a Rooted whose referent is v:
\* self.drop_root(); self.ptr = rhs; self.add_root().
emplace(rootTable, v, rhs) == RootedAddRoot(drop_root(rootTable, v), rhs)

\* Rooted::emplace on a handle the mutator holds.
RootedEmplace ==
    /\ ~crashed
    /\ \E v \in Held, rhs \in Held \cup Readable \cup {EmptyList} :
        /\ roots' = emplace(roots, v, rhs)
        /\ rooted' = (rooted (-) SetToBag({v})) (+) SetToBag({rhs})
        /\ last' = Did("Rooted::emplace", 0, rhs, v)
    /\ UNCHANGED writes
    /\ ArenasUnchanged
    /\ HeapUnchanged

\* Drop for Rooted
RootedDrop ==
    /\ ~crashed
    /\ \E v \in Held :
        /\ RootedDropOf(v)
        /\ last' = Did("Rooted::drop", 0, v, "")
    /\ UNCHANGED writes
    /\ ArenasUnchanged
    /\ HeapUnchanged

\* The values the mutator stores into an object: a leaf or a value it holds
\* rooted.
Storable == {EmptyList} \cup {v \in Held : v.tag # "Activation"}

\* Cons::set_car / Cons::set_cdr through a rooted pair.
SetField(field, op) ==
    /\ ~crashed
    /\ writes < limits.writes
    /\ \E p \in {v \in Held : v.tag = "Pair" /\ ArenaLive(Sets, ThingOf(v))},
          v \in Storable :
        LET i == ArenaIndex(cons_cells, p.arena)
        IN  cons_cells' = [cons_cells EXCEPT ![i].pool[p.index][field] = v]
    /\ writes' = writes + 1
    /\ last' = Did(op, 0, EmptyList, "")
    /\ UNCHANGED <<strings, activations, procedures, roots, rooted>>
    /\ HeapUnchanged

set_car == SetField("car", "set_car")

set_cdr == SetField("cdr", "set_cdr")

\* A faulty push, which puts the value in front of the slots.
PushFront(args, val) == <<val>> \o args

\* Vec::push on the args of an activation.
Push(args, val) == Append(args, val)

\* Activation::push_value through a rooted activation.
push_value ==
    /\ ~crashed
    /\ writes < limits.writes
    /\ \E a \in {v \in Held : v.tag = "Activation" /\ ArenaLive(Sets, ThingOf(v))},
          v \in Storable :
        LET i == ArenaIndex(activations, a.arena)
        IN  /\ activations' = [activations EXCEPT ![i].pool[a.index].args = Push(@, v)]
            /\ last' = Did("push_value", 0, EmptyList, <<a, v>>)
    /\ writes' = writes + 1
    /\ UNCHANGED <<cons_cells, strings, procedures, roots, rooted>>
    /\ HeapUnchanged

\* Heap::global_activation
global_activation_rooted ==
    /\ ~crashed
    /\ BagCardinality(rooted) < limits.rooted
    /\ LET v == Ptr("Activation", global_activation.arena, global_activation.index)
       IN  /\ RootedNewOf(v)
           /\ last' = Did("global_activation", 0, v, "")
    /\ UNCHANGED writes
    /\ ArenasUnchanged
    /\ HeapUnchanged

\* ------------------------------------------------------------------ Activation
\* Value::Integer(n), a leaf: the number is carried in the index field.
Integer(n) == [tag |-> "Integer", arena |-> 0, index |-> n]

\* The integers, the values in one Activation::extend and the coordinates the
\* runs use.
MaxInteger == 2
MaxValues == 2
MaxCoordinate == 2

Integers == {Integer(n) : n \in 1 .. MaxInteger}

\* The vectors of values given to Activation::extend.
ValueLists == UNION {[1 .. n -> Integers] : n \in 0 .. MaxValues}

\* What a fetch or an update gives back: ok is FALSE when it panicked, ub is
\* TRUE when it went through a pointer into a released arena.
Outcome(ok, ub, val, sets) == [ok |-> ok, ub |-> ub, val |-> val, sets |-> sets]

\* A faulty fetch, which reads slot j of the activation itself whatever i is.
FetchOwnSlot(sets, a, i, j) ==
    IF ~ArenaLive(sets, ThingOf(a)) THEN Outcome(FALSE, TRUE, EmptyList, sets)
    ELSE LET act == Deref(sets, ThingOf(a))
         IN  IF j < Len(act.args)
             THEN Outcome(TRUE, FALSE, act.args[j + 1], sets)
             ELSE Outcome(FALSE, FALSE, EmptyList, sets)

RECURSIVE fetch(_, _, _, _)
\* Activation::fetch on the activation behind the pointer a.  The index
\* self.args[j] panics out of bounds with or without the debug assertion.
fetch(sets, a, i, j) ==
    IF ~ArenaLive(sets, ThingOf(a)) THEN Outcome(FALSE, TRUE, EmptyList, sets)
    ELSE LET act == Deref(sets, ThingOf(a))
         IN  IF i = 0
             THEN IF j < Len(act.args)
                  THEN Outcome(TRUE, FALSE, act.args[j + 1], sets)
                  ELSE Outcome(FALSE, FALSE, EmptyList, sets)
             ELSE IF act.parent = NoParent
                  THEN Outcome(FALSE, FALSE, EmptyList, sets)
                  ELSE fetch(sets, act.parent, i - 1, j)

\* The arena sets with slot j of the activation behind a set to val.
WithSlot(sets, a, j, val) ==
    [sets EXCEPT !.Activation[ArenaIndex(sets.Activation, a.arena)]
                     .pool[a.index].args[j + 1] = val]

\* A faulty update, which writes slot j of the activation itself whatever i
\* is.
UpdateOwnSlot(sets, a, i, j, val) ==
    IF ~ArenaLive(sets, ThingOf(a)) THEN Outcome(FALSE, TRUE, EmptyList, sets)
    ELSE LET act == Deref(sets, ThingOf(a))
         IN  IF j < Len(act.args)
             THEN Outcome(TRUE, FALSE, EmptyList, WithSlot(sets, a, j, val))
             ELSE Outcome(FALSE, FALSE, EmptyList, sets)

RECURSIVE UpdateReturning(_, _, _, _, _)
\* A faulty update, which returns without a write when the coordinate is
\* out of range.
UpdateReturning(sets, a, i, j, val) ==
    IF ~ArenaLive(sets, ThingOf(a)) THEN Outcome(FALSE, TRUE, EmptyList, sets)
    ELSE LET act == Deref(sets, ThingOf(a))
         IN  IF i = 0
             THEN IF j < Len(act.args)
                  THEN Outcome(TRUE, FALSE, EmptyList, WithSlot(sets, a, j, val))
                  ELSE Outcome(TRUE, FALSE, EmptyList, sets)
             ELSE IF act.parent = NoParent
                  THEN Outcome(TRUE, FALSE, EmptyList, sets)
                  ELSE UpdateReturning(sets, act.parent, i - 1, j, val)

RECURSIVE update(_, _, _, _, _)
\* Activation::update on the activation behind the pointer a.
update(sets, a, i, j, val) ==
    IF ~ArenaLive(sets, ThingOf(a)) THEN Outcome(FALSE, TRUE, EmptyList, sets)
    ELSE LET act == Deref(sets, ThingOf(a))
         IN  IF i = 0
             THEN IF j < Len(act.args)
                  THEN Outcome(TRUE, FALSE, EmptyList, WithSlot(sets, a, j, val))
                  ELSE Outcome(FALSE, FALSE, EmptyList, sets)
             ELSE IF act.parent = NoParent
                  THEN Outcome(FALSE, FALSE, EmptyList, sets)
                  ELSE update(sets, act.parent, i - 1, j, val)

\* The activations the mutator holds rooted.
HeldActivations == {v \in Held : v.tag = "Activation"}

\* Activation::extend: allocate_activation, then the parent and the values
\* are stored in the new activation.  The values are integers, whose Rooted
\* handles are no roots.
ActivationExtend ==
    /\ ~crashed
    /\ LET p == increase_gc_pressure
       IN  /\ HasRoom(p, "Activation")
           /\ \/ /\ p.ub
                 /\ Crash
              \/ \E id \in NewIds("Activation", p.sets.Activation),
                    parent \in HeldActivations, values \in ValueLists :
                   LET t == TakeSlot(p, "Activation", id)
                       v == Ptr("Activation", t.ptr.arena, t.ptr.index)
                       i == ArenaIndex(t.sets.Activation, v.arena)
                   IN  \/ /\ ~t.ok
                          /\ Panic("Arena::allocate: panic", "")
                       \/ /\ t.ok
                          /\ SetArenas([t.sets EXCEPT !.Activation[i].pool[v.index] =
                                           [parent |-> parent, args |-> values]])
                          /\ allocations' = p.allocations
                          /\ allocations_threshold' = p.threshold
                          /\ RootedNewOf(v)
                          /\ allocated' = allocated + 1
                          /\ last' = Did("Activation::extend", p.gcs, v,
                                         <<parent, values>>)
                          /\ UNCHANGED <<symbol_table, global_activation, locations,
                                         writes, crashed, limits, environment, saved, enlocated, pending_trace, newly_pending_trace, tracing>>

\* The coordinates given to fetch and update.
Coordinates == (0 .. MaxCoordinate) \X (0 .. MaxCoordinate)

\* The values a fetch may return: the slot read, or any value when the read
\* went through a dangling pointer.
Fetched(r) ==
    IF r.ub THEN Integers \cup {EmptyList} ELSE IF r.ok THEN {r.val} ELSE {}

\* a.fetch(heap, i, j) through a rooted activation: the value is returned in
\* a new Rooted.
ActivationFetch ==
    /\ ~crashed
    /\ \E a \in HeldActivations, c \in Coordinates :
        LET r == fetch(Sets, a, c[1], c[2])
        IN  \/ /\ ~r.ok
               /\ Panic("fetch: panic", <<a, c[1], c[2]>>)
            \/ /\ BagCardinality(rooted) < limits.rooted
               /\ \E val \in Fetched(r) :
                    /\ RootedNewOf(val)
                    /\ last' = Did("fetch", 0, val, <<a, c[1], c[2]>>)
               /\ UNCHANGED writes
               /\ ArenasUnchanged
               /\ HeapUnchanged

\* a.update(heap, i, j, val) through a rooted activation.  A write through a
\* dangling pointer ends the process or is lost.
ActivationUpdate ==
    /\ ~crashed
    /\ writes < limits.writes
    /\ \E a \in HeldActivations, c \in Coordinates, val \in Integers :
        LET r == update(Sets, a, c[1], c[2], val)
        IN  \/ /\ ~r.ok
               /\ Panic("update: panic", <<a, c[1], c[2]>>)
            \/ /\ r.ok \/ r.ub
               /\ SetArenas(r.sets)
               /\ writes' = writes + 1
               /\ last' = Did("update", 0, val, <<a, c[1], c[2]>>)
               /\ UNCHANGED <<roots, rooted>>
               /\ HeapUnchanged

\* A faulty insert, which leaves the map as it was.
InsertNothing(map, key, value) == map

\* A faulty insert, which keeps the value of a key the map already has.
InsertKeepsFirst(map, key, value) ==
    [k \in DOMAIN map \cup {key} |-> IF k \in DOMAIN map THEN map[k] ELSE value]

\* HashMap::insert
Insert(map, key, value) ==
    [k \in DOMAIN map \cup {key} |-> IF k = key THEN value ELSE map[k]]

\* Heap::enlocate: the pair becomes a key of the registry; the Rooted passed
\* by value is dropped when the call returns.
enlocate ==
    /\ ~crashed
    /\ \E p \in {v \in Held : v.tag = "Pair"}, loc \in limits.locations :
        LET key == [arena |-> p.arena, index |-> p.index]
        IN  /\ Cardinality(DOMAIN locations \cup {key}) <= limits.located
            /\ locations' = Insert(locations, key, loc)
            /\ RootedDropOf(p)
            /\ last' = Did("enlocate", 0, p, loc)
            /\ enlocated' = Append(enlocated, <<key, loc>>)
    /\ ArenasUnchanged
    /\ UNCHANGED <<symbol_table, global_activation, allocations,
                   allocations_threshold, writes, allocated, crashed, limits, environment, saved, pending_trace, newly_pending_trace, tracing>>

\* Location::unknown(), the location of a pair no reader made.
Unknown == "unknown"

\* self.locations.get(..).map(|loc| loc.clone()).unwrap_or_else(Location::unknown)
LocationOf(locs, key) == IF key \in DOMAIN locs THEN locs[key] ELSE Unknown

\* Heap::locate, on a pair the mutator holds rooted.
locate ==
    /\ ~crashed
    /\ \E p \in {v \in Held : v.tag = "Pair"} :
        last' = Did("locate", 0,
                    LocationOf(locations, [arena |-> p.arena, index |-> p.index]), p)
    /\ UNCHANGED <<roots, rooted, writes, enlocated>>
    /\ ArenasUnchanged
    /\ UNCHANGED <<symbol_table, global_activation, allocations,
                   allocations_threshold, locations, allocated, crashed, limits, environment, saved, pending_trace, newly_pending_trace, tracing>>

\* Heap::get_or_create_symbol: the interned string when the name is known,
\* else allocate_string, fill it with the name, insert it in the table.  The
\* symbol value returned is rooted; the Rooted<StringPtr> is dropped.
get_or_create_symbol ==
    /\ ~crashed
    /\ \E name \in limits.names :
        IF name \in DOMAIN symbol_table
        THEN LET v == Ptr("Symbol", symbol_table[name].arena, symbol_table[name].index)
             IN  /\ BagCardinality(rooted) < limits.rooted
                 /\ RootedNewOf(v)
                 /\ last' = Did("get_or_create_symbol", 0, v, name)
                 /\ UNCHANGED writes
                 /\ ArenasUnchanged
                 /\ HeapUnchanged
        ELSE LET p == increase_gc_pressure
             IN  /\ HasRoom(p, "String")
                 /\ \/ /\ p.ub
                       /\ Crash
                    \/ \E id \in NewIds("String", p.sets["String"]) :
                         LET t == TakeSlot(p, "String", id)
                             v == Ptr("Symbol", t.ptr.arena, t.ptr.index)
                             i == ArenaIndex(t.sets["String"], t.ptr.arena)
                         IN  \/ /\ ~t.ok
                                /\ Panic("Arena::allocate: panic", "")
                             \/ /\ t.ok
                                /\ SetArenas([t.sets EXCEPT
                                       !["String"][i].pool[t.ptr.index].chars = name])
                                /\ allocations' = p.allocations
                                /\ allocations_threshold' = p.threshold
                                /\ symbol_table' = Insert(symbol_table, name, t.ptr)
                                /\ RootedNewOf(v)
                                /\ allocated' = allocated + 1
                                /\ last' = Did("get_or_create_symbol", p.gcs, v, name)
                                /\ UNCHANGED <<global_activation, locations, writes,
                                               crashed, limits, environment, saved, enlocated, pending_trace, newly_pending_trace, tracing>>

\* ------------------------------------------------------------------ Value::len
\* Result<u64, ()>: Ok(n), Err(()), or no result: the recursion went through
\* a pointer into a released arena (ub), or never ends on a cycle (overflow).
Ok(n) == [tag |-> "Ok", n |-> n]
Err == [tag |-> "Err", n |-> 0]
NoResult(why) == [tag |-> why, n |-> 0]

RECURSIVE LenAnyTail(_, _, _)
\* A faulty len, which counts the pairs whatever ends the chain.
LenAnyTail(sets, v, visited) ==
    CASE v.tag = "Pair" ->
            IF ~ArenaLive(sets, ThingOf(v)) THEN NoResult("ub")
            ELSE IF v \in visited THEN NoResult("overflow")
            ELSE LET cdr_len == LenAnyTail(sets, Deref(sets, ThingOf(v)).cdr,
                                           visited \cup {v})
                 IN  IF cdr_len.tag = "Ok" THEN Ok(cdr_len.n + 1) ELSE cdr_len
      [] OTHER -> Ok(0)

RECURSIVE len(_, _, _)
\* Value::len; visited holds the pairs the recursion is in.
len(sets, v, visited) ==
    CASE v.tag = "EmptyList" -> Ok(0)
      [] v.tag = "Pair" ->
            IF ~ArenaLive(sets, ThingOf(v)) THEN NoResult("ub")
            ELSE IF v \in visited THEN NoResult("overflow")
            ELSE LET cdr_len == len(sets, Deref(sets, ThingOf(v)).cdr,
                                    visited \cup {v})
                 IN  IF cdr_len.tag = "Ok" THEN Ok(cdr_len.n + 1) ELSE cdr_len
      [] OTHER -> Err

\* The values a read through a dangling pointer may make len return.
MaxLen == 2
AnyResult == {Err} \cup {Ok(n) : n \in 0 .. MaxLen}

\* v.len() on a value the mutator holds rooted, or on a leaf.
ValueLen ==
    /\ ~crashed
    /\ \E v \in Held \cup {EmptyList, [tag |-> "Integer", arena |-> 0, index |-> 1]} :
        LET r == len(Sets, v, {})
        IN  \/ /\ r.tag \in {"ub", "overflow"}
               /\ Panic("len: crash", v)
            \/ /\ \E res \in (IF r.tag = "ub" THEN AnyResult
                              ELSE IF r.tag = "overflow" THEN {} ELSE {r}) :
                     last' = Did("len", 0, res, v)
               /\ UNCHANGED <<roots, rooted, writes>>
               /\ ArenasUnchanged
               /\ HeapUnchanged

\* ------------------------------------------------------------------ Environment
\* Environment.bindings is a sequence of frames, each a map from a name to
\* its slot; the youngest frame is the last.

\* Environment::new
EnvironmentNew == << <<>> >>

\* Environment::youngest
youngest(env) == env[Len(env)]

\* A faulty define, which reads the size of the frame after the insert.
DefineAfterInsert(env, name) ==
    IF name \in DOMAIN youngest(env)
    THEN [env |-> env, ret |-> <<0, youngest(env)[name]>>]
    ELSE LET n == Cardinality(DOMAIN youngest(env)) + 1
         IN  [env |-> [env EXCEPT ![Len(env)] = Insert(@, name, n)],
              ret |-> <<0, n>>]

\* A faulty define, which gives the name a new slot whether or not the frame
\* binds it.
DefineAlways(env, name) ==
    LET n == Cardinality(DOMAIN youngest(env))
    IN  [env |-> [env EXCEPT ![Len(env)] = Insert(@, name, n)],
         ret |-> <<0, n>>]

\* Environment::define: [env, ret], the bindings afterwards and the
\* coordinate returned.
define(env, name) ==
    IF name \in DOMAIN youngest(env)
    THEN [env |-> env, ret |-> <<0, youngest(env)[name]>>]
    ELSE LET n == Cardinality(DOMAIN youngest(env))
         IN  [env |-> [env EXCEPT ![Len(env)] = Insert(@, name, n)],
              ret |-> <<0, n>>]

RECURSIVE DefineAllReversed(_, _)
\* A faulty loop, which defines the names from the last to the first.
DefineAllReversed(env, names) ==
    IF names = <<>> THEN env
    ELSE DefineAllReversed(define(env, names[Len(names)]).env,
                           SubSeq(names, 1, Len(names) - 1))

\* A faulty loop, which binds each name to its position in the vector of
\* names.
DefineAllByPosition(env, names) ==
    [env EXCEPT ![Len(env)] =
        [n \in {names[i] : i \in DOMAIN names} |->
            (CHOOSE i \in DOMAIN names :
                /\ names[i] = n
                /\ \A j \in DOMAIN names : names[j] = n => j <= i) - 1]]

RECURSIVE DefineAll(_, _)
\* for n in names.into_iter() { self.define(n); }
DefineAll(env, names) ==
    IF names = <<>> THEN env
    ELSE DefineAll(define(env, Head(names)).env, Tail(names))

\* Environment::extend: push an empty frame, define each name in order.
extend(env, names) == DefineAll(Append(env, <<>>), names)

\* A faulty pop, which removes the top frame without the assertion.
PopUnchecked(env) == [ok |-> TRUE, env |-> SubSeq(env, 1, Len(env) - 1)]

\* A faulty pop, which removes the oldest frame.
PopOldest(env) == [ok |-> Len(env) > 1, env |-> Tail(env)]

\* Environment::pop: [ok, env]; the assertion fails, and nothing is removed,
\* when a single frame is left.
pop(env) ==
    IF Len(env) > 1
    THEN [ok |-> TRUE, env |-> SubSeq(env, 1, Len(env) - 1)]
    ELSE [ok |-> FALSE, env |-> env]

RECURSIVE LookupOldestFirst(_, _, _)
\* A faulty scan, which numbers the frames from the oldest.
LookupOldestFirst(env, name, i) ==
    IF i >= Len(env) THEN <<>>
    ELSE IF name \in DOMAIN env[i + 1]
    THEN << <<i, env[i + 1][name]>> >>
    ELSE LookupOldestFirst(env, name, i + 1)

RECURSIVE LookupFrom(_, _, _)
\* The loop of Environment::lookup over bindings.iter().rev().enumerate(),
\* from position i: Some((i, j)) as <<<<i, j>>>>, None as <<>>.
LookupFrom(env, name, i) ==
    IF i >= Len(env) THEN <<>>
    ELSE IF name \in DOMAIN env[Len(env) - i]
    THEN << <<i, env[Len(env) - i][name]>> >>
    ELSE LookupFrom(env, name, i + 1)

\* Environment::lookup
lookup(env, name) == LookupFrom(env, name, 0)

\* Frames the environment holds at most, and names given to one extend.
MaxFrames == 3
MaxNames == 2

\* The names the resolver binds and looks up; "cons" is a primitive.
EnvNames == {"x", "y"}

\* The sequences of at most MaxNames names.
NameLists == UNION {[1 .. n -> EnvNames] : n \in 0 .. MaxNames}

\* What the operations on the environment leave alone.
EnvironmentOnly ==
    UNCHANGED <<cons_cells, strings, activations, procedures, roots,
                symbol_table, global_activation, allocations,
                allocations_threshold, locations, rooted, writes, allocated,
                limits, enlocated, pending_trace, newly_pending_trace, tracing>>

\* heap.environment.define(name)
EnvironmentDefine ==
    /\ ~crashed
    /\ \E name \in EnvNames :
        LET r == define(environment, name)
        IN  /\ environment' = r.env
            /\ last' = Did("define", 0, r.ret, name)
    /\ UNCHANGED <<crashed, saved>>
    /\ EnvironmentOnly

\* heap.environment.lookup(name)
EnvironmentLookup ==
    /\ ~crashed
    /\ \E name \in EnvNames \cup {"cons"} :
        last' = Did("lookup", 0, lookup(environment, name), name)
    /\ UNCHANGED <<environment, crashed, saved>>
    /\ EnvironmentOnly

\* heap.environment.extend(names)
EnvironmentExtend ==
    /\ ~crashed
    /\ Len(environment) < MaxFrames
    /\ \E names \in NameLists :
        /\ environment' = extend(environment, names)
        /\ last' = Did("extend", 0, EmptyList, names)
    /\ saved' = Append(saved, environment)
    /\ UNCHANGED crashed
    /\ EnvironmentOnly

\* heap.environment.pop()
EnvironmentPop ==
    /\ ~crashed
    /\ LET r == pop(environment)
       IN  /\ environment' = r.env
           /\ crashed' = ~r.ok
           /\ saved' = IF r.ok /\ saved # <<>>
                       THEN SubSeq(saved, 1, Len(saved) - 1) ELSE saved
    /\ last' = Did("pop", 0, IF pop(environment).ok THEN youngest(environment)
                                                    ELSE EmptyList, "")
    /\ EnvironmentOnly

\* The blocks handed to with_extended_env: a block defines the names of
\* `defs` in the frame it runs in, then returns or panics.
Blocks == [defs : {ns \in NameLists : Len(ns) <= 1}, exit : {"return", "panic"}]

\* Heap::with_extended_env: extend, run the block, pop.  A panic of the
\* block unwinds through the call: the pop after it is not run.
with_extended_env ==
    /\ ~crashed
    /\ Len(environment) < MaxFrames
    /\ \E names \in NameLists, block \in Blocks :
        LET inside == DefineAll(extend(environment, names), block.defs)
        IN  /\ IF block.exit = "return"
               THEN /\ environment' = pop(inside).env
                    /\ crashed' = ~pop(inside).ok
               ELSE /\ environment' = inside
                    /\ crashed' = TRUE
            /\ last' = Did("with_extended_env", 0, EmptyList, block.exit)
    /\ UNCHANGED saved
    /\ EnvironmentOnly

\* ------------------------------------------------------------------ runs

\* Graph runs: pairs, interned symbols, located pairs, field writes, drops
\* and collections.
GraphAllocations == 4
GraphWrites == 1
GraphRooted == 2
GraphLocated == 1

GraphInit ==
    /\ with_arenas
    /\ limits = Limits(GraphAllocations, GraphWrites, GraphRooted, GraphLocated,
                       {"a"}, {"f:1:1"})

GraphNext ==
    \/ allocate_cons
    \/ get_or_create_symbol
    \/ enlocate
    \/ set_car
    \/ set_cdr
    \/ RootedDrop
    \/ collect_garbage

GraphSpec == GraphInit /\ [][GraphNext]_vars

\* Allocation runs: the four allocate_* calls, values pushed into
\* activations, drops and collections.
AllocAllocations == 4
AllocWrites == 1
AllocRooted == 2

AllocInit ==
    /\ with_arenas
    /\ limits = Limits(AllocAllocations, AllocWrites, AllocRooted, 0, {}, {})

AllocNext ==
    \/ allocate_cons
    \/ allocate_string
    \/ allocate_activation
    \/ allocate_procedure
    \/ push_value
    \/ RootedDrop
    \/ collect_garbage

AllocSpec == AllocInit /\ [][AllocNext]_vars

\* Handle runs: every operation on Rooted handles over a few pairs.
HandleAllocations == 2
HandleWrites == 1
HandleRooted == 3

HandleInit ==
    /\ with_arenas
    /\ limits = Limits(HandleAllocations, HandleWrites, HandleRooted, 0, {}, {})

HandleNext ==
    \/ allocate_cons
    \/ set_car
    \/ global_activation_rooted
    \/ RootedNew
    \/ RootedClone
    \/ RootedEmplace
    \/ RootedDrop
    \/ collect_garbage

HandleSpec == HandleInit /\ [][HandleNext]_vars

\* Symbol runs: two names interned among other strings, drops and
\* collections.
SymbolAllocations == 4
SymbolRooted == 2

SymbolInit ==
    /\ with_arenas
    /\ limits = Limits(SymbolAllocations, 0, SymbolRooted, 0, {"a", "b"}, {})

SymbolNext ==
    \/ get_or_create_symbol
    \/ allocate_string
    \/ RootedDrop
    \/ collect_garbage

SymbolSpec == SymbolInit /\ [][SymbolNext]_vars

\* Environment runs: the resolver's operations on the environment.
EnvironmentInit ==
    /\ with_arenas
    /\ limits = Limits(0, 0, 0, 0, {}, {})

EnvironmentNext ==
    \/ EnvironmentDefine
    \/ EnvironmentLookup
    \/ EnvironmentExtend
    \/ EnvironmentPop
    \/ with_extended_env

EnvironmentSpec == EnvironmentInit /\ [][EnvironmentNext]_vars

\* Activation runs: chains of activations under the global activation are
\* built and read by coordinate.
ActivationAllocations == 2
ActivationRooted == 3

ActivationInit ==
    /\ with_arenas
    /\ limits = Limits(ActivationAllocations, 0, ActivationRooted, 0, {}, {})

ActivationNext ==
    \/ global_activation_rooted
    \/ ActivationExtend
    \/ ActivationFetch
    \/ RootedDrop
    \/ collect_garbage

ActivationSpec == ActivationInit /\ [][ActivationNext]_vars

\* Update runs: the chains are written by coordinate, too.
UpdateAllocations == 2
UpdateWrites == 1
UpdateRooted == 3

UpdateInit ==
    /\ with_arenas
    /\ limits = Limits(UpdateAllocations, UpdateWrites, UpdateRooted, 0, {}, {})

UpdateNext ==
    \/ global_activation_rooted
    \/ ActivationExtend
    \/ ActivationUpdate
    \/ RootedDrop

UpdateSpec == UpdateInit /\ [][UpdateNext]_vars

\* Coordinate runs: one activation under the global activation is read and
\* written at every coordinate, in range or not.
CoordinateAllocations == 1
CoordinateWrites == 1
CoordinateRooted == 3

CoordinateInit ==
    /\ with_arenas
    /\ limits = Limits(CoordinateAllocations, CoordinateWrites, CoordinateRooted,
                       0, {}, {})

CoordinateNext ==
    \/ global_activation_rooted
    \/ ActivationExtend
    \/ ActivationFetch
    \/ ActivationUpdate
    \/ RootedDrop

CoordinateSpec == CoordinateInit /\ [][CoordinateNext]_vars

\* Arena runs: pairs are allocated, linked, unrooted and collected, so that
\* the arenas of the cons set fill, empty and are released.
ArenaAllocations == 5
ArenaWrites == 1
ArenaRooted == 4

ArenaInit ==
    /\ with_arenas
    /\ limits = Limits(ArenaAllocations, ArenaWrites, ArenaRooted, 0, {}, {})

ArenaNext ==
    \/ allocate_cons
    \/ set_car
    \/ RootedDrop
    \/ collect_garbage

ArenaSpec == ArenaInit /\ [][ArenaNext]_vars

\* Location runs: pairs are registered with locations, registered again and
\* looked up.
LocateAllocations == 2
LocateRooted == 2
LocateLocated == 2
LocateCalls == 3

LocateInit ==
    /\ with_arenas
    /\ limits = Limits(LocateAllocations, 0, LocateRooted, LocateLocated, {},
                       {"f:1:1", "f:2:2"})

\* The reader's enlocate, while the run has calls of it left.
LocateEnlocate ==
    /\ Len(enlocated) < LocateCalls
    /\ enlocate

LocateNext ==
    \/ allocate_cons
    \/ RootedClone
    \/ LocateEnlocate
    \/ locate
    \/ RootedDrop
    \/ collect_garbage

LocateSpec == LocateInit /\ [][LocateNext]_vars

\* List runs: pairs and a string are allocated and chained through their
\* cdr, and the length of the chains is taken.
ListAllocations == 3
ListWrites == 2
ListRooted == 3

ListInit ==
    /\ with_arenas
    /\ limits = Limits(ListAllocations, ListWrites, ListRooted, 0, {}, {})

ListNext ==
    \/ allocate_cons
    \/ allocate_string
    \/ set_cdr
    \/ ValueLen
    \/ RootedDrop

ListSpec == ListInit /\ [][ListNext]_vars

\* Collections traced step by step over pairs that point at each other, at
\* themselves and twice at the same pair, some of them located: the mutator
\* runs between collections only.
MarkAllocations == 2
MarkWrites == 3
MarkRooted == 2
MarkLocated == 2

MarkInit ==
    /\ with_arenas
    /\ limits = Limits(MarkAllocations, MarkWrites, MarkRooted, MarkLocated,
                       {}, {"f:1:1"})

MarkAllocate == ~tracing.on /\ allocate_cons

MarkSetCar == ~tracing.on /\ set_car

MarkSetCdr == ~tracing.on /\ set_cdr

\* At most as many enlocate calls as pairs that may be located.
MarkEnlocate == ~tracing.on /\ Len(enlocated) < limits.located /\ enlocate

MarkDrop == ~tracing.on /\ RootedDrop

MarkNext ==
    \/ MarkAllocate
    \/ MarkSetCar
    \/ MarkSetCdr
    \/ MarkEnlocate
    \/ MarkDrop
    \/ StartCollection
    \/ TraceThing
    \/ SweepArenaSets

MarkSpec == MarkInit /\ [][MarkNext]_vars

\* The collector runs on once it has started: nothing else is scheduled
\* until collect_garbage returns.
MarkFairSpec ==
    MarkSpec /\ WF_vars(TraceThing) /\ WF_vars(SweepArenaSets)

\* Collections traced step by step from roots that hold a pair more than
\* once (rooted by two handles, or rooted and located) and from two located
\* pairs, which the registry yields in either order.
OrderAllocations == 3
OrderWrites == 1
OrderRooted == 2
OrderLocated == 2

OrderInit ==
    /\ with_arenas
    /\ limits = Limits(OrderAllocations, OrderWrites, OrderRooted, OrderLocated,
                       {}, {"f:1:1"})

OrderClone == ~tracing.on /\ RootedClone

OrderNext ==
    \/ MarkAllocate
    \/ MarkSetCdr
    \/ MarkEnlocate
    \/ OrderClone
    \/ MarkDrop
    \/ StartCollection
    \/ TraceThing
    \/ SweepArenaSets

OrderSpec == OrderInit /\ [][OrderNext]_vars

\* Activations that hold pairs and integers in their slots, in chains of
\* parents, with drops and collections.
KeepAllocations == 3
KeepWrites == 1
KeepRooted == 2

KeepInit ==
    /\ with_arenas
    /\ limits = Limits(KeepAllocations, KeepWrites, KeepRooted, 0, {}, {})

KeepNext ==
    \/ global_activation_rooted
    \/ allocate_cons
    \/ ActivationExtend
    \/ push_value
    \/ RootedDrop
    \/ collect_garbage

KeepSpec == KeepInit /\ [][KeepNext]_vars

\* Values pushed into the global activation and into activations that
\* extend it.
PushAllocations == 2
PushWrites == 2
PushRooted == 3

PushInit ==
    /\ with_arenas
    /\ limits = Limits(PushAllocations, PushWrites, PushRooted, 0, {}, {})

PushNext ==
    \/ global_activation_rooted
    \/ allocate_cons
    \/ ActivationExtend
    \/ push_value
    \/ RootedDrop

PushSpec == PushInit /\ [][PushNext]_vars

\* Pressure runs: allocations of pairs and strings, pressure applied by the
\* mutator, drops and collections.
PressureAllocations == 4
PressureRooted == 2

PressureInit ==
    /\ with_arenas
    /\ limits = Limits(PressureAllocations, 0, PressureRooted, 0, {}, {})

PressureNext ==
    \/ allocate_cons
    \/ allocate_string
    \/ IncreasePressure
    \/ RootedDrop
    \/ collect_garbage

PressureSpec == PressureInit /\ [][PressureNext]_vars

\* ------------------------------------------------------------------ claims

\* The roots of the heap, read off the state: the interned strings, the
\* global activation, the things of the root table, the located pairs.
RootSet ==
    {GcThing("String", symbol_table[n].arena, symbol_table[n].index) :
        n \in DOMAIN symbol_table}
    \cup {GcThing("Activation", global_activation.arena, global_activation.index)}
    \cup {roots[i][1] : i \in 1 .. Len(roots)}
    \cup {GcThing("Cons", c.arena, c.index) : c \in DOMAIN locations}

\* The things the handles stored in a slot refer to.
PointsTo(sets, thing) ==
    IF ~ArenaLive(sets, thing) THEN {}
    ELSE LET obj == Deref(sets, thing)
             held == CASE thing.kind = "Cons" -> {obj.car, obj.cdr}
                       [] thing.kind = "Activation" ->
                            {obj.args[i] : i \in 1 .. Len(obj.args)} \cup {obj.parent}
                       [] thing.kind = "Procedure" -> {obj.body, obj.act}
                       [] OTHER -> {}
         IN  {ThingOf(v) : v \in {w \in held : IsThing(w)}}

RECURSIVE ReachableFrom(_, _)
\* The things reachable from the things of S along stored handles.
ReachableFrom(sets, S) ==
    LET more == S \cup UNION {PointsTo(sets, t) : t \in S}
    IN  IF more = S THEN S ELSE ReachableFrom(sets, more)

\* A step in which a collection ran to its end: an explicit collect_garbage,
\* or an allocation whose pressure bump triggered one.
CollectionStep == last'.gcs = 1 /\ ~crashed'

\* The count the root table stores for a thing, 0 when it has no entry.
RootCount(rootTable, thing) ==
    IF \E i \in 1 .. Len(rootTable) : rootTable[i][1] = thing
    THEN rootTable[CHOOSE i \in 1 .. Len(rootTable) : rootTable[i][1] = thing][2]
    ELSE 0

\* The live Rooted handles whose referent is the thing.
HandlesTo(thing) ==
    LET vs == {v \in BagToSet(rooted) : IsThing(v) /\ ThingOf(v) = thing}
    IN  BagCardinality([v \in vs |-> rooted[v]])

\* The threshold the arena counts of the sets give: the sum over the four
\* sets of floor(capacity / 2) times the number of arenas.
ThresholdOf(sets) ==
    ((ConsCapacity \div 2) * Len(sets.Cons))
    + ((StringsCapacity \div 2) * Len(sets.String))
    + ((ActivationsCapacity \div 2) * Len(sets.Activation))
    + ((ProceduresCapacity \div 2) * Len(sets.Procedure))

AllocateOps ==
    {"allocate_cons", "allocate_string", "allocate_activation", "allocate_procedure"}

\* C1: when a collection returns, every object that was reachable from a
\* root when it started (an allocated slot reached from an interned string,
\* the global activation, a root table entry or a located pair) is still
\* allocated and holds the contents it held.
C1_ReachableSurvives ==
    [][CollectionStep =>
        \A t \in ReachableFrom(Sets, RootSet) :
            Allocated(Sets, t) =>
                /\ Allocated(Sets', t)
                /\ Deref(Sets', t) = Deref(Sets, t)]_vars

\* C1 witness: a collection has just returned and a pair that is no root,
\* reachable only through a field of another object, is allocated.
C1_Witness ==
    /\ last.op = "collect_garbage"
    /\ \E t \in ReachableFrom(Sets, RootSet) \ RootSet :
        t.kind = "Cons" /\ Allocated(Sets, t)

\* C2: when a collection returns, every slot that was not reachable from a
\* root when it started is free (on the free list of its arena, or in an
\* arena that was released), a pair whose car is itself included; the one
\* exception is the slot the triggering allocation took afterwards.
C2_UnreachableFreed ==
    [][CollectionStep =>
        \A t \in Slots(Sets) \ ReachableFrom(Sets, RootSet) :
            (IsThing(last'.ret) => t # ThingOf(last'.ret)) => ~Allocated(Sets', t)]_vars

\* C2 witness: a collection has just returned and a pair whose car is itself
\* is on the free list of an arena the set still holds.
C2_Witness ==
    /\ last.op = "collect_garbage"
    /\ \E t \in SlotsOfKind(Sets, "Cons") :
        /\ ~Allocated(Sets, t)
        /\ Deref(Sets, t).car = Ptr("Pair", t.arena, t.index)

\* C3: the count the root table stores for each thing is the number of live
\* Rooted handles referring to it, and a thing has an entry exactly while
\* some handle refers to it.
C3_CountsAreHandles ==
    /\ \A i \in 1 .. Len(roots) :
        /\ roots[i][2] >= 1
        /\ roots[i][2] = HandlesTo(roots[i][1])
        /\ \A j \in 1 .. Len(roots) : roots[j][1] = roots[i][1] => j = i
    /\ \A v \in BagToSet(rooted) :
        IsThing(v) => RootCount(roots, ThingOf(v)) = HandlesTo(ThingOf(v))

\* C3 witness: a handle to a thing rooted by several handles has just been
\* dropped and the thing is still in the root table.
C3_Witness ==
    /\ last.op = "Rooted::drop"
    /\ IsThing(last.ret)
    /\ RootCount(roots, ThingOf(last.ret)) >= 1

\* C4: no handle reachable from a root refers to a reclaimed slot: every
\* thing reachable from a root is allocated.
C4_NoReclaimedReachable ==
    \A t \in ReachableFrom(Sets, RootSet) : Allocated(Sets, t)

\* C5: an allocate_* call returns a handle whose root table count it raised
\* by one, to an allocated slot that no root reached before the call.
C5_FreshRootedSlot ==
    [][(last'.op \in AllocateOps /\ allocated' = allocated + 1) =>
        LET t == ThingOf(last'.ret)
        IN  /\ RootCount(roots', t) = RootCount(roots, t) + 1
            /\ Allocated(Sets', t)
            /\ t \notin ReachableFrom(Sets, RootSet)]_vars

\* C6: an allocation made while the counter is below the threshold triggers
\* no collection and counts one more; an allocation made when the counter is
\* at the threshold triggers one collection, which leaves the counter at 0
\* and the threshold recomputed; nothing else moves the counter but a
\* collection, and the counter never exceeds the threshold.
C6_CollectsAtThreshold ==
    [][/\ allocations' <= allocations_threshold'
       /\ allocated' = allocated + 1 =>
            IF allocations < allocations_threshold
            THEN /\ last'.gcs = 0
                 /\ allocations' = allocations + 1
                 /\ allocations_threshold' = allocations_threshold
            ELSE /\ last'.gcs = 1
                 /\ allocations' = 0
                 /\ allocations_threshold' = ThresholdOf(Sets)
       /\ (allocated' = allocated /\ last'.op # "collect_garbage") =>
            /\ allocations' = allocations
            /\ allocations_threshold' = allocations_threshold]_vars

\* C6 witness: with a threshold of at least 2, an allocation that triggered
\* no collection has brought the counter to the threshold.
C6_Witness ==
    /\ last.op \in AllocateOps
    /\ last.gcs = 0
    /\ allocations_threshold >= 2
    /\ allocations = allocations_threshold

\* C7 as stated: after construction and after every collection the counter
\* is 0 and the threshold is the sum over the arenas the sets hold then.
C7_ThresholdOfArenasHeld ==
    (last.op \in {"with_arenas", "collect_garbage"} /\ ~crashed) =>
        /\ allocations = 0
        /\ allocations_threshold = ThresholdOf(Sets)

\* C7 amended: after construction the counter is 0 and the threshold is the
\* sum over the arenas the sets hold; when a collection returns the counter
\* is 0 and the threshold is the sum over the arenas the sets held when the
\* collection started, before its sweep released the empty ones.
C7_ThresholdOfArenasAtStart ==
    /\ (allocations = 0 /\ allocations_threshold = ThresholdOf(Sets))
    /\ [][CollectionStep =>
            /\ allocations' = 0
            /\ allocations_threshold' = ThresholdOf(Sets)]_vars

\* C7 witness: a collection has just returned having released an arena, and
\* the threshold is above the sum over the arenas held.
C7_Witness ==
    /\ last.op = "collect_garbage"
    /\ allocations = 0
    /\ allocations_threshold > ThresholdOf(Sets)

\* C8: a pair registered with enlocate is allocated from then on, and every
\* object reachable from it stays allocated across every step, whatever
\* handles are dropped.
C8_LocatedSurvive ==
    [][/\ \A c \in DOMAIN locations' :
            Allocated(Sets', GcThing("Cons", c.arena, c.index))
       /\ \A c \in DOMAIN locations :
            \A t \in ReachableFrom(Sets, {GcThing("Cons", c.arena, c.index)}) :
                Allocated(Sets, t) => Allocated(Sets', t)]_vars

\* C8 witness: a collection has just returned, no Rooted handle is live, and
\* a located pair and the other pair its car refers to are allocated.
C8_Witness ==
    /\ last.op = "collect_garbage"
    /\ roots = <<>>
    /\ \E c \in DOMAIN locations :
        LET p == GcThing("Cons", c.arena, c.index)
        IN  /\ Allocated(Sets, p)
            /\ Deref(Sets, p).car.tag = "Pair"
            /\ ThingOf(Deref(Sets, p).car) # p
            /\ Allocated(Sets, ThingOf(Deref(Sets, p).car))

\* C9: a call of get_or_create_symbol returns the handle the symbol table
\* holds for the name after it, the table never changes the handle of a name
\* it holds, and no two names share a handle: two calls with one name return
\* the same handle, calls with different names different handles.
C9_SameNameSameHandle ==
    [][/\ \A n \in DOMAIN symbol_table :
            n \in DOMAIN symbol_table' /\ symbol_table'[n] = symbol_table[n]
       /\ \A n, o \in DOMAIN symbol_table' :
            symbol_table'[n] = symbol_table'[o] => n = o
       /\ (last'.op = "get_or_create_symbol" /\ ~crashed'
           /\ <<rooted, allocated>>' # <<rooted, allocated>>) =>
            /\ last'.arg \in DOMAIN symbol_table'
            /\ last'.ret = Ptr("Symbol", symbol_table'[last'.arg].arena,
                               symbol_table'[last'.arg].index)]_vars

\* C9 witness: the one allocation so far interned a name, its handle was
\* dropped, a collection ran, and a second call with the name has returned
\* the handle again.
C9_Witness ==
    /\ last.op = "get_or_create_symbol"
    /\ last.arg \in DOMAIN symbol_table
    /\ allocated = 1
    /\ allocations = 0
    /\ rooted = SetToBag({last.ret})

\* C10: every handle in the symbol table refers to an allocated slot that
\* holds the name it is stored under.
C10_InternedStringsLive ==
    \A n \in DOMAIN symbol_table :
        LET t == GcThing("String", symbol_table[n].arena, symbol_table[n].index)
        IN  Allocated(Sets, t) /\ Deref(Sets, t).chars = n

\* C10 witness: a collection has just returned, no Rooted handle is live,
\* and both names are interned.
C10_Witness ==
    /\ last.op = "collect_garbage"
    /\ roots = <<>>
    /\ DOMAIN symbol_table = {"a", "b"}

\* C11: the global activation allocated at construction is allocated in
\* every reachable state: its slot is not on the free list of its arena and
\* its arena is held by the activations set, whatever handles are dropped.
C11_GlobalActivationAlive ==
    Allocated(Sets, GcThing("Activation", global_activation.arena,
                            global_activation.index))

\* C11 witness: a collection has just returned while no Rooted handle is
\* live, and the global activation still holds the primitives.
C11_Witness ==
    /\ last.op = "collect_garbage"
    /\ rooted = EmptyBag
    /\ roots = <<>>
    /\ Deref(Sets, GcThing("Activation", global_activation.arena,
                           global_activation.index)).args = <<Primitive>>

\* The frames of env, counted from the oldest, that bind the name.
Binding(env, name) == {k \in 1 .. Len(env) : name \in DOMAIN env[k]}

\* The coordinate of the name in env: the innermost frame binding it, counted
\* from the youngest, and its slot there; <<>> when no frame binds it.
Resolve(env, name) ==
    IF Binding(env, name) = {} THEN <<>>
    ELSE LET k == CHOOSE f \in Binding(env, name) :
                      \A g \in Binding(env, name) : g <= f
         IN  << <<Len(env) - k, env[k][name]>> >>

\* C12: lookup(name) returns the coordinate of the innermost frame binding
\* the name, counted from the youngest frame, with the slot of the name in
\* that frame, and None exactly when no frame binds the name; it never
\* changes the environment.
C12_LookupInnermost ==
    [][last'.op = "lookup" =>
          /\ last'.ret = Resolve(environment, last'.arg)
          /\ environment' = environment]_vars

\* C12 witness: a lookup of a name bound in the two older of three frames,
\* with different slots, has returned the binding of the middle frame.
C12_Witness ==
    /\ last.op = "lookup"
    /\ last.arg = "x"
    /\ Len(environment) = 3
    /\ Binding(environment, "x") = {1, 2}
    /\ environment[1]["x"] # environment[2]["x"]
    /\ last.ret = << <<1, environment[2]["x"]>> >>

\* The frames of env under its youngest frame.
Older(env) == SubSeq(env, 1, Len(env) - 1)

\* C13: define(name), for a name the top frame does not bind, returns (0, j)
\* with j the number of bindings the top frame held before the call; a
\* lookup(name) right after it returns the same (0, j), as the lookup taken
\* as the next step does; the frames under the top frame are unchanged.
C13_DefineNewName ==
    [][/\ (last'.op = "define"
           /\ last'.arg \notin DOMAIN youngest(environment)) =>
              /\ last'.ret = <<0, Cardinality(DOMAIN youngest(environment))>>
              /\ lookup(environment', last'.arg) = <<last'.ret>>
              /\ Len(environment') = Len(environment)
              /\ Older(environment') = Older(environment)
       /\ (last.op = "define" /\ last'.op = "lookup"
           /\ last'.arg = last.arg) =>
              last'.ret = <<last.ret>>]_vars

\* C13 witness: a define has given a second name of the top of three frames
\* slot 1, while an older frame binds the name to another slot.
C13_Witness ==
    /\ last.op = "define"
    /\ last.arg = "y"
    /\ last.ret = <<0, 1>>
    /\ Len(environment) = 3
    /\ youngest(environment) = [n \in {"x", "y"} |-> IF n = "x" THEN 0 ELSE 1]
    /\ "y" \in DOMAIN environment[2]
    /\ environment[2]["y"] = 0

\* C14: define(name), for a name the top frame binds, returns the (0, j) the
\* first define of the name in that frame returned and changes nothing,
\* whatever was defined in between: every define returns the slot the top
\* frame then holds for its name, and keeps the slot of every name the frame
\* bound before.
C14_DefineBoundName ==
    [][last'.op = "define" =>
          /\ \A n \in DOMAIN youngest(environment) :
                /\ n \in DOMAIN youngest(environment')
                /\ youngest(environment')[n] = youngest(environment)[n]
          /\ last'.ret = <<0, youngest(environment')[last'.arg]>>
          /\ last'.arg \in DOMAIN youngest(environment) =>
                /\ environment' = environment
                /\ last'.ret = <<0, youngest(environment)[last'.arg]>>]_vars

\* C14 witness: a define of the first name of a frame, taken after a second
\* name was defined in the frame, has returned slot 0.
C14_Witness ==
    /\ last.op = "define"
    /\ last.arg = "x"
    /\ last.ret = <<0, 0>>
    /\ Len(environment) = 2
    /\ youngest(environment) = [n \in {"x", "y"} |-> IF n = "x" THEN 0 ELSE 1]

\* The names of the sequence are pairwise distinct.
Distinct(names) ==
    \A a, b \in 1 .. Len(names) : names[a] = names[b] => a = b

\* The coordinate one frame deeper.
Deeper(found) ==
    IF found = <<>> THEN <<>> ELSE << <<found[1][1] + 1, found[1][2]>> >>

\* C15: after extend(names) with pairwise distinct names n_0 .. n_(k-1),
\* lookup(n_m) returns (0, m) for every m, and every name bound in older
\* frames only is found one level deeper than before, with the same slot.
C15_ExtendBindsInOrder ==
    [][(last'.op = "extend" /\ Distinct(last'.arg)) =>
          /\ \A m \in 1 .. Len(last'.arg) :
                lookup(environment', last'.arg[m]) = << <<0, m - 1>> >>
          /\ \A name \in (EnvNames \cup {"cons"})
                            \ {last'.arg[m] : m \in 1 .. Len(last'.arg)} :
                lookup(environment', name) = Deeper(lookup(environment, name))
      ]_vars

\* C15 witness: extend(<<"y", "x">>) has just pushed the second frame; the
\* primitive of the global frame is found one level up.
C15_Witness ==
    /\ last.op = "extend"
    /\ last.arg = <<"y", "x">>
    /\ Len(environment) = 2
    /\ lookup(environment, "y") = << <<0, 0>> >>
    /\ lookup(environment, "x") = << <<0, 1>> >>
    /\ lookup(environment, "cons") = << <<1, 0>> >>

\* C16: the pop that matches an extend leaves the environment equal to the
\* environment before the extend, whatever defines, lookups and balanced
\* nested extend and pop pairs were made in between.
C16_ExtendPopRoundTrip ==
    [][(last'.op = "pop" /\ ~crashed') =>
          /\ saved # <<>>
          /\ environment' = saved[Len(saved)]]_vars

\* C16 witness: a pop has removed a frame of two names pushed on top of two
\* frames, the lower of them pushed by an extend too.
C16_Witness ==
    /\ last.op = "pop"
    /\ ~crashed
    /\ DOMAIN last.ret = {"x", "y"}
    /\ Len(environment) = 2
    /\ Len(saved) = 1
    /\ DOMAIN youngest(environment) = {"x"}

\* C17: the environment holds at least one frame in every reachable state; a
\* pop while the global frame is the only frame fails and removes nothing,
\* and a pop while there are more frames removes the top frame and no other.
C17_GlobalFrameStays ==
    /\ [](Len(environment) >= 1)
    /\ [][last'.op = "pop" =>
             IF Len(environment) = 1
             THEN crashed' /\ environment' = environment
             ELSE ~crashed' /\ environment' = Older(environment)]_vars

\* C17 witness: a pop of the global frame, taken after a frame was pushed and
\* popped, has failed and the global frame is in place.
C17_Witness ==
    /\ last.op = "pop"
    /\ crashed
    /\ environment = <<[n \in {"cons", "x"} |-> IF n = "cons" THEN 0 ELSE 1]>>

\* C18: with_extended_env(names, block) pops the frame it pushed on every
\* exit path of the block: when the call has ended, by a return of the block
\* or by its failure, the environment has the frames and the bindings it had
\* before the call.
C18_PopsOnEveryExit ==
    [][last'.op = "with_extended_env" => environment' = environment]_vars

\* The activation behind the pointer.
ActivationAt(sets, a) == Deref(sets, ThingOf(a))

RECURSIVE Ancestor(_, _, _)
\* The pointer i parent links above a; NoParent when the chain is shorter.
Ancestor(sets, a, i) ==
    IF i = 0 \/ a = NoParent THEN a
    ELSE Ancestor(sets, ActivationAt(sets, a).parent, i - 1)

\* What a fetch returned: whether it returned, and the value.
Returned(r) == <<r.ok, r.val>>

\* C19: the activation a that Activation::extend(parent, vs) returns has
\* len(vs) slots, a.fetch(0, j) is vs[j] for every j < len(vs), and
\* a.fetch(i + 1, j) is parent.fetch(i, j) for every coordinate valid in
\* parent; every fetch(i, j) returns slot j of the activation i parent links
\* above the one it is called on.
C19_FetchWalksParents ==
    [][/\ last'.op = "Activation::extend" =>
             LET a == last'.ret
                 parent == last'.arg[1]
                 vs == last'.arg[2]
             IN  /\ Len(ActivationAt(Sets', a).args) = Len(vs)
                 /\ \A j \in 0 .. Len(vs) - 1 :
                       Returned(fetch(Sets', a, 0, j)) = <<TRUE, vs[j + 1]>>
                 /\ \A c \in Coordinates :
                       fetch(Sets, parent, c[1], c[2]).ok =>
                          /\ Returned(fetch(Sets', a, c[1] + 1, c[2]))
                               = Returned(fetch(Sets', parent, c[1], c[2]))
                          /\ Returned(fetch(Sets', a, c[1] + 1, c[2]))
                               = Returned(fetch(Sets, parent, c[1], c[2]))
       /\ last'.op = "fetch" =>
             last'.ret = ActivationAt(Sets, Ancestor(Sets, last'.arg[1],
                                                     last'.arg[2]))
                             .args[last'.arg[3] + 1]]_vars

\* C19 witness: on the chain of the global activation, a1 = <<1>> extending
\* it and a2 = <<2, 2>> extending a1, a2.fetch(2, 0) has returned the
\* primitive of the global activation; a2.fetch(0, 1) is 2 and
\* a2.fetch(1, 0) is 1.
C19_Witness ==
    /\ last.op = "fetch"
    /\ last.arg[2] = 2
    /\ last.arg[3] = 0
    /\ last.ret = Primitive
    /\ LET a2 == last.arg[1]
           a1 == ActivationAt(Sets, a2).parent
       IN  /\ ActivationAt(Sets, a2).args = <<Integer(2), Integer(2)>>
           /\ ActivationAt(Sets, a1).args = <<Integer(1)>>
           /\ ActivationAt(Sets, a1).parent
                = Ptr("Activation", global_activation.arena, global_activation.index)
           /\ Returned(fetch(Sets, a2, 0, 1)) = <<TRUE, Integer(2)>>
           /\ Returned(fetch(Sets, a2, 1, 0)) = <<TRUE, Integer(1)>>

\* The pointers to the slots of the activation arenas, allocated or free.
ActivationSlots(sets) ==
    {Ptr("Activation", sets.Activation[n].id, x) :
        n \in 1 .. Len(sets.Activation), x \in 0 .. ActivationsCapacity - 1}

\* C20: after a.update(i, j, v) with a valid coordinate, a.fetch(i, j) is v;
\* the slot written is slot j of the activation i parent links above a, so
\* every activation that has it k links above reads v at (k, j); every other
\* slot, every parent link and the length of every activation are unchanged,
\* as is everything else in the heap.
C20_UpdateWritesOneSlot ==
    [][last'.op = "update" =>
          LET a == last'.arg[1]
              i == last'.arg[2]
              j == last'.arg[3]
              target == Ancestor(Sets, a, i)
          IN  /\ Returned(fetch(Sets', a, i, j)) = <<TRUE, last'.ret>>
              /\ ActivationAt(Sets', target).args[j + 1] = last'.ret
              /\ \A b \in ActivationSlots(Sets), k \in 0 .. MaxCoordinate + 1 :
                    Ancestor(Sets, b, k) = target =>
                       Returned(fetch(Sets', b, k, j)) = <<TRUE, last'.ret>>
              /\ ActivationSlots(Sets') = ActivationSlots(Sets)
              /\ \A b \in ActivationSlots(Sets) :
                    /\ ActivationAt(Sets', b).parent = ActivationAt(Sets, b).parent
                    /\ Len(ActivationAt(Sets', b).args)
                         = Len(ActivationAt(Sets, b).args)
                    /\ \A k \in 1 .. Len(ActivationAt(Sets, b).args) :
                          \/ b = target /\ k = j + 1
                          \/ ActivationAt(Sets', b).args[k]
                               = ActivationAt(Sets, b).args[k]
              /\ \A n \in 1 .. Len(activations) :
                    activations'[n].free = activations[n].free
              /\ UNCHANGED <<cons_cells, strings, procedures, roots,
                             global_activation, environment>>]_vars

\* C20 witness: an update at (1, 0) through one of two activations extending
\* the global activation has replaced the primitive in slot 0 of the global
\* activation; the other reads the new value at (1, 0), and its own slots
\* are as they were made.
C20_Witness ==
    /\ last.op = "update"
    /\ last.arg[2] = 1
    /\ last.arg[3] = 0
    /\ last.ret = Integer(1)
    /\ LET g == Ptr("Activation", global_activation.arena, global_activation.index)
       IN  /\ ActivationAt(Sets, g).args = <<Integer(1)>>
           /\ ActivationAt(Sets, last.arg[1]).parent = g
           /\ \E b \in HeldActivations \ {g, last.arg[1]} :
                 /\ ActivationAt(Sets, b).parent = g
                 /\ ActivationAt(Sets, b).args = <<Integer(2), Integer(2)>>
                 /\ Returned(fetch(Sets, b, 1, 0)) = <<TRUE, Integer(1)>>

\* The coordinate (i, j) is in range for the activation behind a: the chain
\* above a has i parent links and the activation they lead to has more than
\* j slots.
InRange(sets, a, i, j) ==
    /\ Ancestor(sets, a, i) # NoParent
    /\ j < Len(ActivationAt(sets, Ancestor(sets, a, i)).args)

\* C21: fetch(i, j) and update(i, j, v) with a coordinate out of range end
\* in a fatal failure: in every reachable state such a call on a rooted
\* activation does not return, every fetch or update that returns had its
\* coordinate in range, and the failing call writes no slot and roots
\* nothing.
C21_OutOfRangeIsFatal ==
    /\ [](\A a \in HeldActivations, c \in Coordinates, val \in Integers :
             ~InRange(Sets, a, c[1], c[2]) =>
                /\ ~fetch(Sets, a, c[1], c[2]).ok
                /\ ~update(Sets, a, c[1], c[2], val).ok
                /\ update(Sets, a, c[1], c[2], val).sets = Sets)
    /\ [][/\ (last'.op \in {"fetch", "update"} /\ last' # last) =>
                /\ InRange(Sets, last'.arg[1], last'.arg[2], last'.arg[3])
                /\ ~crashed'
          /\ (last'.op \in {"fetch: panic", "update: panic"}) =>
                /\ ~InRange(Sets, last'.arg[1], last'.arg[2], last'.arg[3])
                /\ crashed'
                /\ Sets' = Sets
                /\ UNCHANGED <<roots, rooted>>]_vars

\* C21 witness: an update at (0, 1) through an activation of one slot has
\* failed; the slot of the activation and the slot of its parent are as they
\* were.
C21_Witness ==
    /\ last.op = "update: panic"
    /\ last.arg[2] = 0
    /\ last.arg[3] = 1
    /\ crashed
    /\ ActivationAt(Sets, last.arg[1]).args = <<Integer(1)>>
    /\ ActivationAt(Sets, last.arg[1]).parent
         = Ptr("Activation", global_activation.arena, global_activation.index)
    /\ ActivationAt(Sets, ActivationAt(Sets, last.arg[1]).parent).args
         = <<Primitive>>

\* The slots of the arenas that are not on a free list.
Used(arenas) ==
    LET used(n) == Cardinality(DOMAIN arenas[n].pool) - Len(arenas[n].free)
        sum[n \in 0 .. Len(arenas)] == IF n = 0 THEN 0 ELSE sum[n - 1] + used(n)
    IN  sum[Len(arenas)]

\* ceil(n / c)
Ceil(n, c) == (n + c - 1) \div c

\* C22: ArenaSet::allocate appends a new arena only when every arena of the
\* set is full, and then exactly one, leaving the others as they were; so
\* while nothing was reclaimed (every pair allocated so far still holds its
\* slot), k allocations have left ceil(k / capacity) arenas.
C22_NewArenaWhenAllFull ==
    /\ [][(last'.op = "allocate_cons" /\ ~crashed') =>
             LET before == increase_gc_pressure.sets.Cons
             IN  IF \A n \in 1 .. Len(before) : is_full(before[n])
                 THEN /\ Len(cons_cells') = Len(before) + 1
                      /\ \A n \in 1 .. Len(before) : cons_cells'[n] = before[n]
                      /\ Used(cons_cells') = Used(before) + 1
                 ELSE /\ Len(cons_cells') = Len(before)
                      /\ Used(cons_cells') = Used(before) + 1]_vars
    /\ [](Used(cons_cells) = allocated =>
             Len(cons_cells) = Ceil(allocated, ConsCapacity))

\* C22 witness: three pairs were allocated, nothing was reclaimed, and the
\* third allocation, finding the one arena full, has added the second.
C22_Witness ==
    /\ last.op = "allocate_cons"
    /\ allocated = 3
    /\ Used(cons_cells) = 3
    /\ Len(cons_cells) = 2
    /\ last.ret.arena = cons_cells[2].id

\* The arena of the kind holds a thing of the set R.
Holds(kind, arena, R) ==
    \E x \in DOMAIN arena.pool : GcThing(kind, arena.id, x) \in R

\* C23: a collection releases exactly the arenas that hold no reachable
\* object: when collect_garbage returns, the arenas each set holds are the
\* arenas that held an object reachable from a root when it started, and
\* after every collection no arena of a set is empty.
C23_ReleasesUnreachableArenas ==
    [][/\ (last'.op = "collect_garbage" /\ ~crashed') =>
             \A kind \in Kinds :
                 LiveIds(Sets'[kind])
                   = {Sets[kind][n].id : n \in
                        {m \in 1 .. Len(Sets[kind]) :
                            Holds(kind, Sets[kind][m],
                                  ReachableFrom(Sets, RootSet))}}
       /\ CollectionStep =>
             \A kind \in Kinds : \A n \in 1 .. Len(Sets'[kind]) :
                 ~is_empty(Sets'[kind][n])]_vars

\* C23 witness: a collection that started with two arenas of pairs has
\* returned; the arena whose pairs were unrooted is released and the arena
\* of the pair still rooted remains.
C23_Witness ==
    /\ last.op = "collect_garbage"
    /\ allocations_threshold = ThresholdOf([Sets EXCEPT !.Cons = <<1, 2>>])
    /\ Len(cons_cells) = 1
    /\ Used(cons_cells) = 1
    /\ \E v \in BagToSet(rooted) : v.tag = "Pair" /\ v.arena = cons_cells[1].id

KeyOf(p) == [arena |-> p.arena, index |-> p.index]

\* The location of the last call in the log that registered the key, Unknown
\* when no call did.
MostRecent(log, key) ==
    LET calls == {n \in 1 .. Len(log) : log[n][1] = key}
    IN  IF calls = {} THEN Unknown
        ELSE log[CHOOSE n \in calls : \A m \in calls : m <= n][2]

RECURSIVE Spine(_, _, _)
\* The value, its cdr, the cdr of that, ...: up to the first value that is
\* no pair, or for `fuel` pairs.
Spine(sets, v, fuel) ==
    IF v.tag # "Pair" \/ fuel = 0 \/ ~ArenaLive(sets, ThingOf(v)) THEN <<v>>
    ELSE <<v>> \o Spine(sets, Deref(sets, ThingOf(v)).cdr, fuel - 1)

\* The number of slots for pairs: no chain without a cycle is longer.
ConsSlots == ConsCapacity * MaxConsArenas

\* The value that ends the chain of cdrs from v.
TailOf(sets, v) == Spine(sets, v, ConsSlots)[Len(Spine(sets, v, ConsSlots))]

\* C26: Value::len returns Ok(n) for a proper list of n cons cells (Ok(0) for
\* the empty list), and Err for a value that is neither a pair nor the empty
\* list and for a chain of pairs whose last cdr is not the empty list.
C26_LenOfProperList ==
    [][last'.op = "len" =>
          LET v == last'.arg
              cells == Len(Spine(Sets, v, ConsSlots)) - 1
              tail == TailOf(Sets, v)
          IN  /\ tail = EmptyList => last'.ret = Ok(cells)
              /\ v = EmptyList => last'.ret = Ok(0)
              /\ tail.tag \notin {"EmptyList", "Pair"} => last'.ret = Err]_vars

\* C26 witness: len has returned Ok(2) for a list of two cells.
C26_Witness ==
    /\ last.op = "len"
    /\ last.ret = Ok(2)
    /\ last.arg.tag = "Pair"
    /\ Deref(Sets, ThingOf(last.arg)).cdr.tag = "Pair"
    /\ Deref(Sets, ThingOf(Deref(Sets, ThingOf(last.arg)).cdr)).cdr = EmptyList

\* C27: in every reachable state the root table holds at most one entry per
\* GC thing and every count in it is at least 1; drop_root for a thing that
\* has no entry leaves the table unchanged, and so do add_root and drop_root
\* through a Rooted whose value is a leaf.
C27_RootTableWellFormed ==
    /\ [](/\ \A i, j \in 1 .. Len(roots) : roots[i][1] = roots[j][1] => i = j
          /\ \A i \in 1 .. Len(roots) : roots[i][2] >= 1
          /\ \A t \in Slots(Sets) :
                RootCount(roots, t) = 0 => DropFold(roots, t) = roots
          /\ RootedAddRoot(roots, EmptyList) = roots
          /\ drop_root(roots, EmptyList) = roots)
    /\ [][(/\ last'.op \in {"Rooted::new", "Rooted::clone", "Rooted::drop"}
           /\ ~crashed'
           /\ ~IsThing(last'.ret)) => roots' = roots]_vars

\* C27 witness: a Rooted holding the empty list has just been dropped while
\* the root table has an entry of count 2.
C27_Witness ==
    /\ last.op = "Rooted::drop"
    /\ last.ret = EmptyList
    /\ \E i \in 1 .. Len(roots) : roots[i][2] = 2

\* 1 when the value is a handle to the thing, else 0.
Refers(v, thing) == IF IsThing(v) /\ ThingOf(v) = thing THEN 1 ELSE 0

\* C28: Rooted::emplace(new) lowers the root count of the old referent by
\* one, its entry going at zero, raises the count of the new referent by
\* one and leaves the count of every other thing unchanged; no collection
\* runs in it; with the current referent as the new one the counts are
\* unchanged; afterwards the handle holds the new referent.
C28_EmplaceMovesOneRoot ==
    [][last'.op = "Rooted::emplace" =>
          LET old == last'.arg
              new == last'.ret
              things == Slots(Sets) \cup {roots[i][1] : i \in 1 .. Len(roots)}
          IN  /\ \A t \in things :
                    RootCount(roots', t)
                      = (RootCount(roots, t) - Refers(old, t)) + Refers(new, t)
              /\ {roots'[i][1] : i \in 1 .. Len(roots')} \subseteq things
              /\ \A i \in 1 .. Len(roots') : roots'[i][2] >= 1
              /\ old = new =>
                    \A t \in things : RootCount(roots', t) = RootCount(roots, t)
              /\ last'.gcs = 0
              /\ Sets' = Sets
              /\ UNCHANGED <<allocations, allocations_threshold>>
              /\ rooted' = (rooted (-) SetToBag({old})) (+) SetToBag({new})
              /\ new \in BagToSet(rooted')]_vars

\* C28 witness: a handle, the only one to its pair, has been reseated to a
\* pair that another handle roots: the old pair has no entry and the new
\* pair has count 2.
C28_Witness ==
    /\ last.op = "Rooted::emplace"
    /\ IsThing(last.arg)
    /\ IsThing(last.ret)
    /\ last.arg # last.ret
    /\ RootCount(roots, ThingOf(last.arg)) = 0
    /\ RootCount(roots, ThingOf(last.ret)) = 2

\* C29: whenever no collect_garbage call is in progress (after construction,
\* after each allocation and each collection, between the operations of the
\* mutator) every mark bit of every arena of every set is clear.
C29_MarksClearOutsideCollection ==
    \A kind \in Kinds : \A n \in 1 .. Len(Sets[kind]) :
        \A x \in DOMAIN Sets[kind][n].marked : ~Sets[kind][n].marked[x]

\* C29 witness: an allocation whose pressure bump ran a collection has
\* returned while two more pairs, marked by that collection, are allocated.
C29_Witness ==
    /\ last.op = "allocate_cons"
    /\ last.gcs = 1
    /\ ~crashed
    /\ Used(cons_cells) = 3
    /\ \E t \in ReachableFrom(Sets, RootSet) \ RootSet : t.kind = "Cons"

\* The indices on the free list of the arena.
FreeSet(arena) == {arena.free[n] : n \in 1 .. Len(arena.free)}

\* C30: in every reachable state the free list of each arena holds no index
\* twice and only indices below the capacity; the slot an allocation returns
\* was free when Arena::allocate took it and is off the free list afterwards,
\* and if it was allocated when the call began, the collection of this call
\* found it unreachable; when collect_garbage returns, the free list of each
\* arena is the set of its slots that were not reachable.
C30_FreeListWellFormed ==
    /\ [](\A kind \in Kinds : \A n \in 1 .. Len(Sets[kind]) :
             LET arena == Sets[kind][n]
             IN  /\ Cardinality(FreeSet(arena)) = Len(arena.free)
                 /\ FreeSet(arena) \subseteq 0 .. Capacity(kind) - 1)
    /\ [][/\ (last'.op = "allocate_cons" /\ ~crashed') =>
                LET t == ThingOf(last'.ret)
                IN  /\ ~Allocated(increase_gc_pressure.sets, t)
                    /\ Allocated(Sets', t)
                    /\ Used(cons_cells') = Used(increase_gc_pressure.sets.Cons) + 1
                    /\ Allocated(Sets, t) =>
                          /\ last'.gcs = 1
                          /\ t \notin ReachableFrom(Sets, RootSet)
          /\ (last'.op = "collect_garbage" /\ ~crashed') =>
                \A kind \in Kinds : \A n \in 1 .. Len(Sets'[kind]) :
                    FreeSet(Sets'[kind][n])
                      = {x \in 0 .. Capacity(kind) - 1 :
                            GcThing(kind, Sets'[kind][n].id, x)
                              \notin ReachableFrom(Sets, RootSet)}]_vars

\* C30 witness: the fifth allocation of a run with four slots for pairs has
\* returned a slot that an earlier allocation returned and a sweep freed.
C30_Witness ==
    /\ last.op = "allocate_cons"
    /\ ~crashed
    /\ allocated = 5
    /\ Allocated(Sets, ThingOf(last.ret))
    /\ Used(cons_cells) = 4

RECURSIVE Referents(_, _)
\* The number of handles the things of S hold: what tracing each of them
\* once puts on the worklist.
Referents(sets, S) ==
    IF S = {} THEN 0
    ELSE LET t == CHOOSE t \in S : TRUE
         IN  Len(trace(sets, t)) + Referents(sets, S \ {t})

\* Whether the pair behind the thing a holds the pair behind b in the field.
HoldsIn(sets, a, field, b) ==
    /\ IsThing(Deref(sets, a)[field])
    /\ ThingOf(Deref(sets, a)[field]) = b

\* C31: collect_garbage terminates on every heap graph, cycles and shared
\* references included.  A collection that has started goes on to its sweep
\* (or the process ends on a read behind a dangling pointer); while it runs
\* each thing is marked at most once, the referents pushed on the worklist
\* are those of the things marked, each traced once, and the loop has made at
\* most one round more than it has marked things; outside a collection the
\* worklist is empty.
C31_CollectionTerminates ==
    /\ [](tracing.on =>
            /\ \A t \in BagToSet(tracing.marked) : CopiesIn(t, tracing.marked) = 1
            /\ \A t \in BagToSet(tracing.marked) : is_marked(Sets, t)
            /\ tracing.enqueued = Referents(Sets, BagToSet(tracing.marked))
            /\ tracing.rounds <= BagCardinality(tracing.marked) + 1)
    /\ [](~tracing.on => pending_trace = <<>> /\ newly_pending_trace = <<>>)
    /\ (tracing.on ~> (~tracing.on \/ crashed))

\* C31 witness: a collection has returned after marking two pairs of which
\* the first holds the second in both fields and the second points back at
\* the first.
C31_Witness ==
    /\ last.op = "collect_garbage"
    /\ ~tracing.on
    /\ ~crashed
    /\ \E a, b \in BagToSet(tracing.marked) :
          /\ a # b
          /\ a.kind = "Cons"
          /\ b.kind = "Cons"
          /\ HoldsIn(Sets, a, "car", b)
          /\ HoldsIn(Sets, a, "cdr", b)
          /\ HoldsIn(Sets, b, "cdr", a)

\* The arena sets with every mark bit clear: the heap as it was when the
\* collection under way began.
Cleared(sets) ==
    [k \in Kinds |->
        [i \in 1 .. Len(sets[k]) |->
            [sets[k][i] EXCEPT !.marked = [n \in DOMAIN sets[k][i].marked |-> FALSE]]]]

\* How many times the thing occurs in the vector.
Occurrences(vector, thing) == Cardinality({i \in DOMAIN vector : vector[i] = thing})

\* C32: the result of a collection is a function of the heap graph and of
\* the set of roots.  Whatever order the symbol table and the location
\* registry were iterated in and however often a thing occurred among the
\* roots, the arena sets collect_garbage leaves (slots kept, free lists,
\* arenas held) are those a collection gives that starts from the roots
\* taken once each in a fixed order, and the slots kept are the slots
\* reachable from the set of roots.
C32_OrderIndependent ==
    [][(tracing.on /\ ~tracing'.on /\ ~crashed') =>
          LET before == Cleared(Sets)
              once == SetToSeq(RootSet)
          IN  /\ Sets' = SweepAll(MarkLoop([sets |-> before, newly |-> <<>>,
                                            ub |-> FALSE], once).sets)
              /\ \A t \in Slots(before) :
                    Allocated(Sets', t) <=> t \in ReachableFrom(before, RootSet)]_vars

\* C32 witness: a collection has returned whose roots were enumerated in
\* another order than the fixed one, with two located pairs and with a thing
\* twice among the roots, and which freed a slot.
C32_Witness ==
    /\ last.op = "collect_garbage"
    /\ ~tracing.on
    /\ ~crashed
    /\ Cardinality(DOMAIN locations) = 2
    /\ tracing.order # get_roots(symbol_table, global_activation, roots, locations)
    /\ \E i \in DOMAIN tracing.order : Occurrences(tracing.order, tracing.order[i]) = 2
    /\ \E t \in SlotsOfKind(Sets, "Cons") : ~Allocated(Sets, t)

\* The tags of the values that carry no slot handle.
LeafTags == {"EmptyList", "Integer", "Primitive"}

\* The activations on the parent chain of the activation behind a, itself
\* included.
ChainOf(sets, a) ==
    {Ancestor(sets, a, i) : i \in 0 .. ActivationsCapacity * MaxActivationsArenas}
    \ {NoParent}

\* What the activation behind a keeps alive by itself: the activations of its
\* parent chain and the objects their slots hold.
KeptBy(sets, a) ==
    {ThingOf(b) : b \in ChainOf(sets, a)}
    \cup UNION {{ThingOf(ActivationAt(sets, b).args[k]) :
                    k \in {n \in 1 .. Len(ActivationAt(sets, b).args) :
                              ActivationAt(sets, b).args[n].tag \notin LeafTags}} :
                b \in ChainOf(sets, a)}

\* C33: a collection keeps, for every activation reachable from a root, the
\* activations of its parent chain and every object held in a slot of one of
\* them: each is allocated afterwards with the contents it had, rooted or
\* not.  The handles an activation is traced for are one per slot that holds
\* no leaf, and one for the parent when there is one.
C33_ActivationKeepsAlive ==
    /\ [][CollectionStep =>
            \A a \in {t \in ReachableFrom(Sets, RootSet) : t.kind = "Activation"} :
                \A t \in KeptBy(Sets, Ptr("Activation", a.arena, a.index)) :
                    /\ Allocated(Sets', t)
                    /\ Deref(Sets', t) = Deref(Sets, t)]_vars
    /\ [](\A t \in SlotsOfKind(Sets, "Activation") :
            LET act == Deref(Sets, t)
            IN  Len(trace(Sets, t))
                  = Cardinality({k \in 1 .. Len(act.args) : act.args[k].tag \notin LeafTags})
                    + (IF act.parent = NoParent THEN 0 ELSE 1))

\* C33 witness: a collection has just returned; a rooted activation has a
\* parent that is no root and is not the global activation, and that parent
\* holds an integer and a pair that is no root; parent and pair are
\* allocated.
C33_Witness ==
    /\ last.op = "collect_garbage"
    /\ ~crashed
    /\ \E a \in HeldActivations :
          LET b == ActivationAt(Sets, a).parent
          IN  /\ b # NoParent
              /\ ThingOf(b) \notin RootSet
              /\ Allocated(Sets, ThingOf(b))
              /\ \E k \in 1 .. Len(ActivationAt(Sets, b).args) :
                    ActivationAt(Sets, b).args[k].tag = "Integer"
              /\ \E k \in 1 .. Len(ActivationAt(Sets, b).args) :
                    LET v == ActivationAt(Sets, b).args[k]
                    IN  /\ v.tag = "Pair"
                        /\ ThingOf(v) \notin RootSet
                        /\ Allocated(Sets, ThingOf(v))

\* C34: push_value(v) through an activation appends one slot.  The
\* activation has one slot more, fetch(0, old len) on it returns v, its
\* parent and its earlier slots are as they were, and so are every other
\* activation, the other arena sets, the free lists and the roots.
C34_PushAppendsOneSlot ==
    [][(last'.op = "push_value" /\ ~crashed') =>
          LET a == last'.arg[1]
              v == last'.arg[2]
              old == ActivationAt(Sets, a)
              new == ActivationAt(Sets', a)
          IN  /\ Len(new.args) = Len(old.args) + 1
              /\ fetch(Sets', a, 0, Len(old.args)) = Outcome(TRUE, FALSE, v, Sets')
              /\ new.parent = old.parent
              /\ \A k \in 1 .. Len(old.args) : new.args[k] = old.args[k]
              /\ \A t \in SlotsOfKind(Sets, "Activation") \ {ThingOf(a)} :
                    Deref(Sets', t) = Deref(Sets, t)
              /\ \A n \in 1 .. Len(activations) :
                    /\ activations'[n].id = activations[n].id
                    /\ activations'[n].free = activations[n].free
              /\ Len(activations') = Len(activations)
              /\ UNCHANGED <<cons_cells, strings, procedures, roots,
                             global_activation>>]_vars

\* C34 witness: a pair has just been pushed into an activation that extends
\* the global activation and had two slots, one of them pushed before; it is
\* now in the third slot.
C34_Witness ==
    /\ last.op = "push_value"
    /\ ~crashed
    /\ writes = 2
    /\ LET a == last.arg[1]
           act == ActivationAt(Sets, a)
       IN  /\ ThingOf(a) # GcThing("Activation", global_activation.arena,
                                   global_activation.index)
           /\ act.parent # NoParent
           /\ Len(act.args) = 3
           /\ act.args[1].tag = "Integer"
           /\ act.args[2] = EmptyList
           /\ act.args[3].tag = "Pair"
           /\ act.args[3] = last.arg[2]

\* The operations that call increase_gc_pressure once.
PressureOps == AllocateOps \cup {"increase_gc_pressure"}

\* C35: between operations the allocation counter is at least 0 and at most
\* the threshold.  A step moves the counter only from n to n + 1, in a call
\* of increase_gc_pressure that collects nothing, or to 0, in a step that
\* ran a collection; the threshold moves only in a step that ran a
\* collection, to the value reset_gc_pressure computes from the arenas held
\* when the collection began.
C35_CounterWithinThreshold ==
    /\ [](0 <= allocations /\ allocations <= allocations_threshold)
    /\ [][/\ allocations' # allocations =>
                \/ /\ allocations' = allocations + 1
                   /\ last'.op \in PressureOps
                   /\ last'.gcs = 0
                \/ /\ allocations' = 0
                   /\ last'.gcs = 1
          /\ (last'.gcs = 1 /\ ~crashed') =>
                /\ allocations' = 0
                /\ allocations_threshold' = reset_gc_pressure(Sets)
          /\ (last'.op \in PressureOps /\ last'.gcs = 0 /\ ~crashed') =>
                /\ allocations' = allocations + 1
                /\ allocations < allocations_threshold
          /\ allocations_threshold' # allocations_threshold => last'.gcs = 1]_vars

\* C35 witness: the counter stands at a threshold of 2 after the mutator
\* applied pressure itself, a collection having reset it before.
C35_Witness ==
    /\ last.op = "increase_gc_pressure"
    /\ last.gcs = 0
    /\ ~crashed
    /\ allocated >= 2
    /\ allocations = 2
    /\ allocations_threshold = 2

\* The slot indices a frame binds its names to.
SlotsOf(frame) == {frame[n] : n \in DOMAIN frame}

\* C36: every frame of the environment binds its n names to the slot
\* indices 0 .. n-1, one name per index, after every define, redefinition,
\* extend and pop; the frame extend(names) pushes has one slot per distinct
\* name of names.
C36_FramesBindDenseSlots ==
    /\ [](\A f \in 1 .. Len(environment) :
            /\ SlotsOf(environment[f]) = 0 .. Cardinality(DOMAIN environment[f]) - 1
            /\ \A m, n \in DOMAIN environment[f] :
                  environment[f][m] = environment[f][n] => m = n)
    /\ [][(last'.op = "extend" /\ Len(environment') = Len(environment) + 1) =>
            /\ DOMAIN youngest(environment') = {last'.arg[i] : i \in DOMAIN last'.arg}
            /\ Cardinality(SlotsOf(youngest(environment')))
                 = Cardinality({last'.arg[i] : i \in DOMAIN last'.arg})]_vars

\* C36 witness: extend was given the same name twice and pushed a frame of
\* one slot, on top of a frame in which a second name was defined after the
\* first was redefined.
C36_Witness ==
    /\ last.op = "extend"
    /\ last.arg = <<"y", "y">>
    /\ Len(environment) = 3
    /\ Cardinality(DOMAIN environment[3]) = 1
    /\ environment[3]["y"] = 0
    /\ Cardinality(DOMAIN environment[2]) = 2
    /\ environment[2]["x"] = 0
    /\ environment[2]["y"] = 1

====
